---- MODULE Spec2Model ----
\* Verification model of the ch5_dev CSP library: the CSP container
\* (csp_core.py) and its solvers (backtracking.py, heuristic_backtracking.py,
\* inference_backtracking.py).
EXTENDS Integers, Sequences, FiniteSets, TLC

\* ---------------------------------------------------------------- bounds
\* Longest constraint list built by add_constraint in SpecModel.
MaxConstraints == 2

\* Number of solve_with_metrics calls made on one solver instance.
MaxSolves == 2

\* Longest technique sequence given to InferenceBacktrackingSolver.
MaxTechniques == 3

\* Largest progress_interval given to InstrumentedHeuristicBacktracking.
MaxProgressInterval == 1
\* the largest max_count handed to count_solutions
MaxCount == 3

\* The most pairs an initial assignment holds.
MaxInitial == 2

\* ---------------------------------------------------------------- universe
\* Variable identities (Variable = str, csp_core.py:16).
VarNames == {"A", "B", "C"}

\* ------------------------------------------------------------ state
VARIABLES
    variables,      \* CSP.variables: set of registered variables
    domains,        \* CSP.domains: variable -> its domain set object
    constraints,    \* CSP.constraints: list of constraints
    lastCall,       \* the most recent CSP call and how it ended
    hashOrder,      \* iteration order of a set of variable names in this process
    pc,             \* position of the caller / of the running search
    call,           \* the last backtracking_search / heuristic_backtracking_search call
    instr,          \* the InstrumentedHeuristicBacktracking instance
    techniques,     \* InferenceBacktrackingSolver.techniques (names, in order)
    neighbors,      \* InferenceBacktrackingSolver.neighbors
    current_domains,\* InferenceBacktrackingSolver.current_domains: variable -> the
                    \* set object it holds ("own": the solver's, "csp": the CSP's)
    work,           \* the set objects the solver owns, by variable
    counters,       \* _nodes_expanded, _backtracks, _max_depth, ...
    assignment,     \* the assignment dict of the running search
    stack,          \* the active _backtrack calls, outermost first
    tech,           \* index of the next technique of _apply_inference
    runs,           \* what each finished solve_with_metrics call returned
    declared        \* csp.domains as add_variable left them (pre-solve value)

searchVars == <<call, instr>>
infVars == <<techniques, neighbors, current_domains, work, counters, assignment,
             stack, tech, runs, declared>>
vars == <<variables, domains, constraints, lastCall, hashOrder, pc, searchVars, infVars>>

\* ------------------------------------------------------------ Constraint
\* A constraint: its scope (tuple of variables) and its relation, either an
\* explicit set of permitted tuples (kind "set") or a predicate (kind
\* "callable", named by fn).
Constraint(scope, kind, tuples, fn) ==
    [scope |-> scope, kind |-> kind, tuples |-> tuples, fn |-> fn]

\* The predicates used as implicit relations (lambda a, b: a != b, ...).
ApplyRelation(fn, values) ==
    CASE fn = "not_equal" -> values[1] # values[2]
      [] fn = "less_than" -> values[1] < values[2]
      [] fn = "all_different" ->
            \A i, j \in DOMAIN values : i # j => values[i] # values[j]
      [] OTHER -> FALSE

\* Set of the variables of a scope tuple.
ScopeSet(scope) == {scope[i] : i \in DOMAIN scope}

\* is_satisfied without the early return for an unassigned scope variable: a
\* constraint with one is not satisfied
is_satisfied_all_assigned(c, asg) ==
    /\ \A i \in DOMAIN c.scope : c.scope[i] \in DOMAIN asg
    /\ LET values == [i \in DOMAIN c.scope |-> asg[c.scope[i]]]
       IN  IF c.kind = "set" THEN values \in c.tuples
           ELSE ApplyRelation(c.fn, values)

\* Constraint.is_satisfied(assignment)
is_satisfied(c, asg) ==
    IF \E i \in DOMAIN c.scope : c.scope[i] \notin DOMAIN asg
    THEN TRUE
    ELSE LET values == [i \in DOMAIN c.scope |-> asg[c.scope[i]]]
         IN  IF c.kind = "set" THEN values \in c.tuples
             ELSE ApplyRelation(c.fn, values)

\* ------------------------------------------------------------ CSP
\* assignment extended with var = value (temp_assignment[var] = value)
Assign(asg, var, value) ==
    [v \in DOMAIN asg \cup {var} |->
        IF v = var THEN value ELSE asg[v]]

\* a "del assignment[var]" that is left out
Unassign_left_out(asg, var) == asg

\* del assignment[var]
Unassign(asg, var) ==
    [v \in DOMAIN asg \ {var} |-> asg[v]]

EmptyAssignment == [v \in {} |-> 0]

\* The caller's assignment after CSP.is_consistent: the extension is made on
\* temp_assignment = assignment.copy().
is_consistent_leaves(asg, var, value) == asg

\* a consistency check that looks only at the constraints whose scope begins
\* with var
is_consistent_leading(cons, var, value, asg) ==
    \A i \in DOMAIN cons :
        var = cons[i].scope[1] => is_satisfied(cons[i], Assign(asg, var, value))

\* CSP.is_consistent(var, value, assignment) over a constraint list
is_consistent(cons, var, value, asg) ==
    LET temp_assignment == Assign(asg, var, value)
    IN  \A i \in DOMAIN cons :
            var \in ScopeSet(cons[i].scope) => is_satisfied(cons[i], temp_assignment)

\* CSP.is_complete(assignment)
is_complete(vs, asg) == Cardinality(DOMAIN asg) = Cardinality(vs)

\* CSP.is_solution(assignment)
is_solution(vs, cons, asg) ==
    /\ is_complete(vs, asg)
    /\ \A i \in DOMAIN cons : is_satisfied(cons[i], asg)

\* The scope check at the head of CSP.add_constraint: TRUE when the loop
\* finds no unregistered variable.
ScopeRegisteredFirstOnly(vs, c) == c.scope[1] \in vs

ScopeRegistered(vs, c) == \A i \in DOMAIN c.scope : c.scope[i] \in vs

\* ------------------------------------------------------------ ordering helpers
\* Lexicographic order on tuples of integers (Python tuple / str comparison).
RECURSIVE LexLess(_, _)
LexLess(a, b) ==
    IF a = <<>> THEN b # <<>>
    ELSE IF b = <<>> THEN FALSE
    ELSE IF Head(a) < Head(b) THEN TRUE
    ELSE IF Head(a) > Head(b) THEN FALSE
    ELSE LexLess(Tail(a), Tail(b))

\* Insert a keyed entry behind every entry whose key is not greater (stable).
RECURSIVE InsertKeyed(_, _)
InsertKeyed(sorted, e) ==
    IF sorted = <<>> THEN <<e>>
    ELSE IF LexLess(e.key, Head(sorted).key) THEN <<e>> \o sorted
    ELSE <<Head(sorted)>> \o InsertKeyed(Tail(sorted), e)

RECURSIVE SortKeyed(_, _)
SortKeyed(done, todo) ==
    IF todo = <<>> THEN done
    ELSE SortKeyed(InsertKeyed(done, Head(todo)), Tail(todo))

\* list.sort(key=Key): a stable sort by an integer-tuple key.
SortByKey(seq, Key(_)) ==
    LET keyed == [i \in DOMAIN seq |-> [key |-> Key(seq[i]), item |-> seq[i]]]
        out == SortKeyed(<<>>, keyed)
    IN  [i \in DOMAIN seq |-> out[i].item]

\* str(var) of a variable name, as its character codes.
StrOfVar(v) ==
    CASE v = "A" -> <<65>>
      [] v = "B" -> <<66>>
      [] v = "C" -> <<67>>
      [] v = "D" -> <<68>>
      [] OTHER -> <<63>>

\* str(value) of a non-negative integer value: its decimal digits' codes.
RECURSIVE StrOfValue(_)
StrOfValue(n) ==
    IF n < 10 THEN <<48 + n>>
    ELSE StrOfValue(n \div 10) \o <<48 + (n % 10)>>

\* Iterating a set of variable names: by this process's string hashes.
IterVars(S) == SelectSeq(hashOrder, LAMBDA v : v \in S)

\* Iterating a set of small integers: hash(n) = n, so the elements come in the
\* order of their slots n mod 8 in the hash table of a set of up to 4 elements.
IterValues(S) ==
    LET RECURSIVE build(_, _)
        build(done, left) ==
            IF left = {} THEN done
            ELSE LET x == CHOOSE y \in left : \A z \in left : (y % 8) <= (z % 8)
                 IN  build(Append(done, x), left \ {x})
    IN  build(<<>>, S)

RECURSIVE SumSeq(_)
SumSeq(s) == IF s = <<>> THEN 0 ELSE Head(s) + SumSeq(Tail(s))

\* [F(x) for x in seq]
SeqMap(seq, F(_)) == [i \in DOMAIN seq |-> F(seq[i])]

\* ------------------------------------------------------------ results
\* Optional[Dict[Variable, Value]]: None, or an assignment.
None == [found |-> FALSE, assignment |-> EmptyAssignment]
Found(asg) == [found |-> TRUE, assignment |-> asg]
NoneVar == "None"

\* What a _recursive_backtrack call hands back, together with what it leaves
\* behind: the assignment dict after the call (the very dict that is returned
\* when a solution is found), and depth, the number of recursion levels the
\* call went below itself.
Returned(found, asg, depth) == [found |-> found, assignment |-> asg, depth |-> depth]

\* The Optional[Dict] the caller of a search receives.
Outcome(r) == IF r.found THEN Found(r.assignment) ELSE None

\* A failed call of the instrumented search and the dict it leaves behind.
Left(asg) == [found |-> FALSE, assignment |-> asg]

\* _build_neighbors(csp)
build_neighbors(vs, cons) ==
    [v \in vs |->
        UNION {ScopeSet(cons[i].scope) \ {v} :
                 i \in {j \in DOMAIN cons : v \in ScopeSet(cons[j].scope)}}]

\* ------------------------------------------------------------ backtracking.py
\* _select_unassigned_variable(csp, assignment): first unassigned in set order
bt_select_unassigned_variable(asg) ==
    LET unassigned == IterVars(variables \ DOMAIN asg)
    IN  IF unassigned = <<>> THEN NoneVar ELSE Head(unassigned)

RECURSIVE bt_recursive_backtrack(_)
RECURSIVE bt_try_values(_, _, _, _)

\* the loop "for value in csp.domains[var]" of _recursive_backtrack, on the
\* dict as the earlier iterations left it; depth is the deepest level they
\* reached
bt_try_values(asg, var, values, depth) ==
    IF values = <<>> THEN Returned(FALSE, asg, depth)
    ELSE IF is_consistent(constraints, var, Head(values), asg)
         THEN LET result == bt_recursive_backtrack(Assign(asg, var, Head(values)))
                  below == IF result.depth + 1 > depth THEN result.depth + 1 ELSE depth
              IN  IF result.found THEN Returned(TRUE, result.assignment, below)
                  ELSE bt_try_values(Unassign(result.assignment, var), var,
                                     Tail(values), below)
         ELSE bt_try_values(asg, var, Tail(values), depth)

\* _recursive_backtrack(csp, assignment)
bt_recursive_backtrack(asg) ==
    IF is_complete(variables, asg) THEN Returned(TRUE, asg, 0)
    ELSE LET var == bt_select_unassigned_variable(asg)
         IN  IF var = NoneVar THEN Returned(FALSE, asg, 0)
             ELSE bt_try_values(asg, var, IterValues(domains[var]), 0)

\* backtracking_search(csp)
backtracking_search == Outcome(bt_recursive_backtrack(EmptyAssignment))

RECURSIVE count_recursive(_, _, _)
RECURSIVE count_values(_, _, _, _, _)

\* the loop "for value in csp.domains[var]" of _count_recursive
count_values(asg, var, values, count, max_count) ==
    IF values = <<>> THEN count
    ELSE IF is_consistent(constraints, var, Head(values), asg)
         THEN count_values(asg, var, Tail(values),
                           count_recursive(Assign(asg, var, Head(values)), count, max_count),
                           max_count)
         ELSE count_values(asg, var, Tail(values), count, max_count)

\* _count_recursive(csp, assignment, count) under the max_count of the call
count_recursive(asg, count, max_count) ==
    IF count >= max_count THEN count
    ELSE IF is_complete(variables, asg) THEN count + 1
    ELSE LET var == bt_select_unassigned_variable(asg)
         IN  IF var = NoneVar THEN count
             ELSE count_values(asg, var, IterValues(domains[var]), count, max_count)

\* count_solutions counting under its default max_count = 1000
count_solutions_default(max_count) == count_recursive(EmptyAssignment, 0, 1000)

\* count_solutions(csp, max_count), CSP.count_solutions(max_count)
count_solutions(max_count) == count_recursive(EmptyAssignment, 0, max_count)

\* ------------------------------------------------------------ heuristic_backtracking.py
\* HeuristicFlags = (use_mrv, use_degree, use_lcv)
Flags(mrv, degree, lcv) == [use_mrv |-> mrv, use_degree |-> degree, use_lcv |-> lcv]

AllFlags == {Flags(m, d, l) : m \in BOOLEAN, d \in BOOLEAN, l \in BOOLEAN}

SeqMax(s) == CHOOSE x \in {s[i] : i \in DOMAIN s} : \A i \in DOMAIN s : s[i] <= x
SeqMin(s) == CHOOSE x \in {s[i] : i \in DOMAIN s} : \A i \in DOMAIN s : s[i] >= x

\* _get_legal_values(csp, var, assignment), dropping the last domain value
get_legal_values_drop_last(var, asg) ==
    LET all == IterValues(domains[var])
    IN  SelectSeq(SubSeq(all, 1, Len(all) - 1),
                  LAMBDA value : is_consistent(constraints, var, value, asg))

\* _get_legal_values(csp, var, assignment)
get_legal_values(var, asg) ==
    SelectSeq(IterValues(domains[var]),
              LAMBDA value : is_consistent(constraints, var, value, asg))

\* _count_unassigned_neighbors counting the assigned neighbours as well
count_all_neighbors(var, nbrs, asg) == Cardinality(nbrs[var])

\* _count_unassigned_neighbors(var, neighbors, assignment)
count_unassigned_neighbors(var, nbrs, asg) ==
    Cardinality({n \in nbrs[var] : n \notin DOMAIN asg})

\* the filters of _select_unassigned_variable without the min_domain filter
FilterCandidates_degree_only(candidates, use_mrv, use_degree) ==
    LET max_degree == SeqMax(SeqMap(candidates, LAMBDA item : item.degree))
    IN  IF use_degree
        THEN SelectSeq(candidates, LAMBDA item : item.degree = max_degree)
        ELSE candidates

\* the two filters of _select_unassigned_variable over (var, legal, degree) items
FilterCandidates(candidates, use_mrv, use_degree) ==
    LET max_degree == SeqMax(SeqMap(candidates, LAMBDA item : item.degree))
        by_degree == IF use_degree
                     THEN SelectSeq(candidates, LAMBDA item : item.degree = max_degree)
                     ELSE candidates
        min_domain == SeqMin(SeqMap(by_degree, LAMBDA item : Len(item.legal_values)))
    IN  IF use_mrv
        THEN SelectSeq(by_degree, LAMBDA item : Len(item.legal_values) = min_domain)
        ELSE by_degree

\* _select_unassigned_variable without the final sort: the first survivor in
\* the iteration order of csp.variables
heuristic_select_unsorted(asg, nbrs, flags) ==
    LET candidates ==
            SeqMap(IterVars(variables \ DOMAIN asg),
                   LAMBDA var : [var |-> var,
                                 legal_values |-> get_legal_values(var, asg),
                                 degree |-> count_unassigned_neighbors(var, nbrs, asg)])
    IN  IF candidates = <<>> THEN [var |-> NoneVar, legal_values |-> <<>>]
        ELSE LET filtered == FilterCandidates(candidates, flags.use_mrv, flags.use_degree)
             IN  [var |-> filtered[1].var, legal_values |-> filtered[1].legal_values]

\* _select_unassigned_variable(csp, assignment, neighbors, flags)
heuristic_select_unassigned_variable(asg, nbrs, flags) ==
    LET candidates ==
            SeqMap(IterVars(variables \ DOMAIN asg),
                   LAMBDA var : [var |-> var,
                                 legal_values |-> get_legal_values(var, asg),
                                 degree |-> count_unassigned_neighbors(var, nbrs, asg)])
    IN  IF candidates = <<>> THEN [var |-> NoneVar, legal_values |-> <<>>]
        ELSE LET filtered == SortByKey(
                     FilterCandidates(candidates, flags.use_mrv, flags.use_degree),
                     LAMBDA item : StrOfVar(item.var))
             IN  [var |-> filtered[1].var, legal_values |-> filtered[1].legal_values]

\* _count_value_impact counting the neighbours' values that stay consistent
heuristic_count_value_kept(var, value, asg, nbrs) ==
    LET tentative == Assign(asg, var, value)
        open == IterVars({n \in nbrs[var] : n \notin DOMAIN tentative})
    IN  SumSeq(SeqMap(open, LAMBDA neighbor :
            Cardinality({nv \in domains[neighbor] :
                            is_consistent(constraints, neighbor, nv, tentative)})))

\* _count_value_impact(csp, var, value, assignment, neighbors)
heuristic_count_value_impact(var, value, asg, nbrs) ==
    LET tentative == Assign(asg, var, value)
        open == IterVars({n \in nbrs[var] : n \notin DOMAIN tentative})
    IN  SumSeq(SeqMap(open, LAMBDA neighbor :
            Cardinality(domains[neighbor])
            - Cardinality({nv \in domains[neighbor] :
                              is_consistent(constraints, neighbor, nv, tentative)})))

\* _order_domain_values(csp, var, legal_values, assignment, neighbors, flags)
heuristic_order_domain_values(var, legal_values, asg, nbrs, flags) ==
    IF ~flags.use_lcv THEN legal_values
    ELSE SortByKey(legal_values,
                   LAMBDA value :
                       <<heuristic_count_value_impact(var, value, asg, nbrs), value>>)

RECURSIVE heuristic_recursive_backtrack(_, _, _)
RECURSIVE heuristic_try_values(_, _, _, _, _, _)

\* the loop "for value in ordered_values" of _recursive_backtrack, on the dict
\* as the earlier iterations left it; depth is the deepest level they reached
heuristic_try_values(asg, nbrs, flags, var, values, depth) ==
    IF values = <<>> THEN Returned(FALSE, asg, depth)
    ELSE IF is_consistent(constraints, var, Head(values), asg)
         THEN LET result == heuristic_recursive_backtrack(
                                Assign(asg, var, Head(values)), nbrs, flags)
                  below == IF result.depth + 1 > depth THEN result.depth + 1 ELSE depth
              IN  IF result.found THEN Returned(TRUE, result.assignment, below)
                  ELSE heuristic_try_values(Unassign(result.assignment, var), nbrs,
                                            flags, var, Tail(values), below)
         ELSE heuristic_try_values(asg, nbrs, flags, var, Tail(values), depth)

\* _recursive_backtrack(csp, assignment, neighbors, flags)
heuristic_recursive_backtrack(asg, nbrs, flags) ==
    IF is_complete(variables, asg) THEN Returned(TRUE, asg, 0)
    ELSE LET sel == heuristic_select_unassigned_variable(asg, nbrs, flags)
         IN  IF sel.var = NoneVar \/ sel.legal_values = <<>>
             THEN Returned(FALSE, asg, 0)
             ELSE heuristic_try_values(asg, nbrs, flags, sel.var,
                      heuristic_order_domain_values(sel.var, sel.legal_values,
                                                    asg, nbrs, flags), 0)

\* heuristic_backtracking_search(csp, use_mrv=, use_degree=, use_lcv=)
heuristic_backtracking_search(flags) ==
    Outcome(heuristic_recursive_backtrack(
                EmptyAssignment, build_neighbors(variables, constraints), flags))

\* select_unassigned_variable(csp, assignment, neighbors, use_mrv=, use_degree=)
public_select_unassigned_variable(asg, nbrs, use_mrv, use_degree) ==
    heuristic_select_unassigned_variable(asg, nbrs, Flags(use_mrv, use_degree, FALSE))

\* order_domain_values(csp, var, legal_values, assignment, neighbors, use_lcv=)
public_order_domain_values(var, legal_values, asg, nbrs, use_lcv) ==
    heuristic_order_domain_values(var, legal_values, asg, nbrs,
                                  Flags(FALSE, FALSE, use_lcv))

\* a _count_value_impact that forgets "del assignment[var]"
count_value_impact_keeps(asg, var, value) == Assign(asg, var, value)

\* the assignment dict after one _count_value_impact call:
\* assignment[var] = value ... del assignment[var]
count_value_impact_leaves(asg, var, value) == Unassign(Assign(asg, var, value), var)

\* the assignment dict after _order_domain_values: one _count_value_impact
\* call per legal value when use_lcv is set, none otherwise
RECURSIVE order_domain_values_leaves(_, _, _, _)
order_domain_values_leaves(asg, var, legal_values, use_lcv) ==
    IF ~use_lcv \/ legal_values = <<>> THEN asg
    ELSE order_domain_values_leaves(
             count_value_impact_leaves(asg, var, Head(legal_values)),
             var, Tail(legal_values), use_lcv)

\* ------------------------------------------------------------ InstrumentedHeuristicBacktracking
\* The counters _reset_counters sets to zero.
ZeroCounters ==
    [attempt_count |-> 0, recursion_depth |-> 0, max_recursion_depth |-> 0,
     constraint_checks |-> 0, domain_reductions |-> 0, variable_selections |-> 0,
     mrv_applications |-> 0, degree_applications |-> 0, lcv_applications |-> 0,
     initial_assignment_size |-> 0]

CounterNames == DOMAIN ZeroCounters

\* _reset_counters left out: the counters keep their values
reset_counters_skipped(self) == self

\* InstrumentedHeuristicBacktracking._reset_counters
reset_counters(self) ==
    [f \in DOMAIN self |-> IF f \in CounterNames THEN ZeroCounters[f] ELSE self[f]]

\* InstrumentedHeuristicBacktracking.__init__
instr_init(flags, progress_interval) ==
    [f \in CounterNames
            \cup {"use_mrv", "use_degree", "use_lcv", "progress_interval", "printed"} |->
        CASE f = "use_mrv" -> flags.use_mrv
          [] f = "use_degree" -> flags.use_degree
          [] f = "use_lcv" -> flags.use_lcv
          [] f = "progress_interval" -> progress_interval
          [] f = "printed" -> 0
          [] OTHER -> ZeroCounters[f]]

Bump(self, f, n) == [self EXCEPT ![f] = @ + n]

\* the candidate list of _select_unassigned_variable: the unassigned variables
\* of sorted(csp.variables, key=str), each with its legal values and degree
instr_candidates(asg, nbrs) ==
    SeqMap(SelectSeq(SortByKey(IterVars(variables), StrOfVar),
                     LAMBDA var : var \notin DOMAIN asg),
           LAMBDA var : [var |-> var,
                         legal_values |-> get_legal_values(var, asg),
                         degree |-> count_unassigned_neighbors(var, nbrs, asg)])

\* the _is_consistent calls of one _select_unassigned_variable call, each
\* adding len(constraints) to constraint_checks
instr_select_checks(asg) ==
    SumSeq(SeqMap(IterVars(variables \ DOMAIN asg),
                  LAMBDA var : Cardinality(domains[var])))
    * Len(constraints)

\* the head of the filtered, sorted candidate list
instr_first(filtered, self) ==
    [var |-> filtered[1].var, legal_values |-> filtered[1].legal_values, self |-> self]

\* _select_unassigned_variable once the candidates are listed
instr_pick(self, candidates, checks) ==
    IF candidates = <<>>
    THEN [var |-> NoneVar, legal_values |-> <<>>,
          self |-> Bump(self, "constraint_checks", checks)]
    ELSE instr_first(
            SortByKey(FilterCandidates(candidates, self.use_mrv, self.use_degree),
                      LAMBDA item : StrOfVar(item.var)),
            [self EXCEPT !.constraint_checks = @ + checks,
                         !.variable_selections = @ + 1,
                         !.degree_applications = IF self.use_degree THEN @ + 1 ELSE @,
                         !.mrv_applications = IF self.use_mrv THEN @ + 1 ELSE @])

\* InstrumentedHeuristicBacktracking._select_unassigned_variable
instr_select_unassigned_variable(self, asg, nbrs) ==
    instr_pick(self, instr_candidates(asg, nbrs), instr_select_checks(asg))

\* the inconsistent values of one neighbour once var = value is assigned
instr_conflicts(neighbor, tentative) ==
    Cardinality({nv \in domains[neighbor] :
                    ~is_consistent(constraints, neighbor, nv, tentative)})

\* InstrumentedHeuristicBacktracking._count_value_impact
instr_count_value_impact(var, value, asg, nbrs) ==
    SumSeq(SeqMap(IterVars({n \in nbrs[var] : n \notin DOMAIN asg /\ n # var}),
                  LAMBDA neighbor : instr_conflicts(neighbor, Assign(asg, var, value))))

\* the constraint checks one _count_value_impact call performs
instr_impact_checks(var, asg, nbrs) ==
    SumSeq(SeqMap(IterVars({n \in nbrs[var] : n \notin DOMAIN asg /\ n # var}),
                  LAMBDA neighbor : Cardinality(domains[neighbor])))
    * Len(constraints)

\* InstrumentedHeuristicBacktracking._order_domain_values
instr_order_domain_values(self, var, legal_values, asg, nbrs) ==
    IF ~self.use_lcv THEN [values |-> legal_values, self |-> self]
    ELSE [values |->
            SortByKey(legal_values,
                      LAMBDA value :
                          <<instr_count_value_impact(var, value, asg, nbrs)>>
                          \o StrOfValue(value)),
          self |-> [self EXCEPT
                       !.lcv_applications = @ + 1,
                       !.constraint_checks =
                           @ + Len(legal_values) * instr_impact_checks(var, asg, nbrs)]]

\* one result of _instrumented_recursive_backtrack, with the instance after it
InstrResult(result, self) ==
    [found |-> result.found, assignment |-> result.assignment, self |-> self]

\* the counting at the head of _instrumented_recursive_backtrack; printed counts
\* the lines _report_progress has written to stdout, one each time the attempt
\* count is a multiple of progress_interval
instr_enter(self) ==
    [self EXCEPT
        !.attempt_count = @ + 1,
        !.recursion_depth = @ + 1,
        !.max_recursion_depth =
            IF self.recursion_depth + 1 > @ THEN self.recursion_depth + 1 ELSE @,
        !.printed =
            IF self.progress_interval > 0
               /\ (self.attempt_count + 1) % self.progress_interval = 0
            THEN @ + 1 ELSE @]

\* a return without "self.recursion_depth -= 1"
instr_leave_skipped(self) == self

\* self.recursion_depth -= 1 before a return
instr_leave(self) == [self EXCEPT !.recursion_depth = @ - 1]

RECURSIVE instrumented_recursive_backtrack(_, _, _)
RECURSIVE instr_selected(_, _, _)
RECURSIVE instr_ordered(_, _, _, _)
RECURSIVE instr_try_values(_, _, _, _, _)
RECURSIVE instr_attempted(_, _, _, _, _)

\* after the recursive call for one value: return its solution, or
\* "del assignment[var]" and go on
instr_attempted(r, asg, nbrs, var, rest) ==
    IF r.found THEN InstrResult(r, instr_leave(r.self))
    ELSE instr_try_values(r.self, Unassign(r.assignment, var), nbrs, var, rest)

\* the loop "for value in ordered_values" of _instrumented_recursive_backtrack
instr_try_values(self, asg, nbrs, var, values) ==
    IF values = <<>> THEN InstrResult(Left(asg), instr_leave(self))
    ELSE instr_attempted(
             instrumented_recursive_backtrack(Bump(self, "domain_reductions", 1),
                                              Assign(asg, var, Head(values)), nbrs),
             asg, nbrs, var, Tail(values))

\* after _order_domain_values
instr_ordered(ord, asg, nbrs, var) ==
    IF ord.values = <<>> THEN InstrResult(Left(asg), instr_leave(ord.self))
    ELSE instr_try_values(ord.self, asg, nbrs, var, ord.values)

\* _instrumented_recursive_backtrack without the early return for a selected
\* variable that has no legal value: it goes on with the whole domain
instr_selected_no_early_return(sel, asg, nbrs) ==
    IF sel.var = NoneVar
    THEN InstrResult(Left(asg), instr_leave(sel.self))
    ELSE instr_ordered(
             instr_order_domain_values(sel.self, sel.var, IterValues(domains[sel.var]),
                                       asg, nbrs),
             asg, nbrs, sel.var)

\* after _select_unassigned_variable
instr_selected(sel, asg, nbrs) ==
    IF sel.var = NoneVar \/ sel.legal_values = <<>>
    THEN InstrResult(Left(asg), instr_leave(sel.self))
    ELSE instr_ordered(
             instr_order_domain_values(sel.self, sel.var, sel.legal_values, asg, nbrs),
             asg, nbrs, sel.var)

\* InstrumentedHeuristicBacktracking._instrumented_recursive_backtrack
instrumented_recursive_backtrack(self, asg, nbrs) ==
    IF is_complete(variables, asg)
    THEN InstrResult(Found(asg), instr_leave(instr_enter(self)))
    ELSE instr_selected(
             instr_select_unassigned_variable(instr_enter(self), asg, nbrs), asg, nbrs)

\* InstrumentedHeuristicBacktracking._calculate_average_domain_size: the
\* division sum(domain_sizes) / len(domain_sizes) fails on an empty list.
calculate_average_domain_size_raises == Cardinality(variables) = 0

\* what solve_with_metrics returns or raises once the search has returned r;
\* assignment is its local dict when it ends
instr_outcome(r) ==
    IF calculate_average_domain_size_raises
    THEN [raised |-> "ZeroDivisionError", solution |-> None,
          metrics |-> ZeroCounters, self |-> r.self, assignment |-> r.assignment]
    ELSE [raised |-> "none",
          solution |-> Outcome(r),
          metrics |-> [f \in CounterNames |-> r.self[f]],
          self |-> r.self, assignment |-> r.assignment]

\* an initial-assignment loop that leaves out the csp.is_consistent test
RECURSIVE accept_initial_unchecked(_, _)
accept_initial_unchecked(items, asg) ==
    IF items = <<>> THEN [raised |-> "none", assignment |-> asg]
    ELSE LET var == Head(items)[1]
             value == Head(items)[2]
         IN  IF var \notin variables \/ value \notin domains[var]
             THEN [raised |-> "ValueError", assignment |-> asg]
             ELSE accept_initial_unchecked(Tail(items), Assign(asg, var, value))

\* the loop "for var, value in initial_assignment.items()" of
\* solve_with_metrics, items being the pairs of the dict in its order: the
\* ValueError of the first pair that is refused, or the assignment built
RECURSIVE accept_initial(_, _)
accept_initial(items, asg) ==
    IF items = <<>> THEN [raised |-> "none", assignment |-> asg]
    ELSE LET var == Head(items)[1]
             value == Head(items)[2]
         IN  IF \/ var \notin variables
                \/ value \notin domains[var]
                \/ ~is_consistent(constraints, var, value, asg)
             THEN [raised |-> "ValueError", assignment |-> asg]
             ELSE accept_initial(Tail(items), Assign(asg, var, value))

\* InstrumentedHeuristicBacktracking.solve_with_metrics(csp, initial_assignment):
\* what it returns or raises, and the instance after it; <<>> stands for an
\* initial_assignment of None or {}.
instr_solve_with_metrics(self, initial_assignment) ==
    LET accepted == accept_initial(initial_assignment, EmptyAssignment)
        start == reset_counters(self)
    IN  IF accepted.raised # "none"
        THEN [raised |-> accepted.raised, solution |-> None, metrics |-> ZeroCounters,
              self |-> start, assignment |-> accepted.assignment]
        ELSE instr_outcome(instrumented_recursive_backtrack(
                 [f \in DOMAIN start |->
                     IF f = "initial_assignment_size"
                     THEN Cardinality(DOMAIN accepted.assignment) ELSE start[f]],
                 accepted.assignment, build_neighbors(variables, constraints)))

\* ------------------------------------------------------------ inference_backtracking.py
\* The names registered in InferenceBacktrackingSolver.TECHNIQUES.
TECHNIQUES == {"forward_checking", "constraint_propagation", "arc_consistency"}

\* The counters _prepare (and __init__) set to zero.
ZeroInferenceCounters ==
    [nodes_expanded |-> 0, backtracks |-> 0, max_depth |-> 0,
     forward_prunes |-> 0, propagation_steps |-> 0, arc_revisions |-> 0]

\* No InferenceBacktrackingSolver exists yet.
NoSolver ==
    /\ techniques = <<>>
    /\ neighbors = <<>>
    /\ current_domains = <<>>
    /\ work = <<>>
    /\ counters = ZeroInferenceCounters
    /\ assignment = EmptyAssignment
    /\ stack = <<>>
    /\ tech = 0
    /\ runs = <<>>
    /\ declared = domains

\* The mutable search state a technique handler works on: the working domain
\* map D, the removals list of the current attempt, and the counters.
SearchState(D, removals, cnt) == [D |-> D, removals |-> removals, counters |-> cnt]

\* a _prune that removes the value without recording it in removals
prune_unrecorded(st, var, value) ==
    IF value \notin st.D[var] THEN [st |-> st, pruned |-> FALSE]
    ELSE [st |-> [st EXCEPT !.D[var] = @ \ {value}], pruned |-> TRUE]

\* InferenceBacktrackingSolver._prune(var, value, removals)
prune(st, var, value) ==
    IF value \notin st.D[var] THEN [st |-> st, pruned |-> FALSE]
    ELSE [st |-> [st EXCEPT !.D[var] = @ \ {value},
                            !.removals = Append(@, <<var, value>>)],
          pruned |-> TRUE]

\* The loop "for v in list(current_domains[var]): if Bad(v): _prune(var, v)":
\* the state after it and the number of values it removed.
PruneEach(st, var, values, Bad(_)) ==
    LET RECURSIVE loop(_, _, _)
        loop(s, vals, n) ==
            IF vals = <<>> THEN [st |-> s, count |-> n]
            ELSE IF Bad(Head(vals))
                 THEN LET p == prune(s, var, Head(vals))
                      IN  loop(p.st, Tail(vals), IF p.pruned THEN n + 1 ELSE n)
                 ELSE loop(s, Tail(vals), n)
    IN  loop(st, values, 0)

BumpCounter(st, f, n) == [st EXCEPT !.counters[f] = @ + n]

\* a _restrict_to_assignment that only tests the value and prunes nothing
restrict_tests_only(st, var, value) == [ok |-> value \in st.D[var], st |-> st]

\* a _restrict_to_assignment that narrows the domain without recording it
restrict_unrecorded(st, var, value) ==
    IF value \notin st.D[var] THEN [ok |-> FALSE, st |-> st]
    ELSE [ok |-> TRUE, st |-> [st EXCEPT !.D[var] = {value}]]

\* InferenceBacktrackingSolver._restrict_to_assignment(var, value, removals)
restrict_to_assignment(st, var, value) ==
    IF value \notin st.D[var] THEN [ok |-> FALSE, st |-> st]
    ELSE [ok |-> TRUE,
          st |-> PruneEach(st, var, IterValues(st.D[var]),
                           LAMBDA other_value : other_value # value).st]

\* a _forward_check without the test for an emptied neighbour domain
forward_check_ignores_empty(st, var, asg) ==
    LET RECURSIVE each_neighbor(_, _)
        each_neighbor(s, todo) ==
            IF todo = <<>> THEN [ok |-> TRUE, st |-> s]
            ELSE LET neighbor == Head(todo)
                 IN  IF neighbor \in DOMAIN asg THEN each_neighbor(s, Tail(todo))
                     ELSE LET p == PruneEach(s, neighbor, IterValues(s.D[neighbor]),
                                      LAMBDA nv : ~is_consistent(constraints, neighbor, nv, asg))
                          IN  each_neighbor(BumpCounter(p.st, "forward_prunes", p.count),
                                            Tail(todo))
    IN  each_neighbor(st, IterVars(neighbors[var]))

\* InferenceBacktrackingSolver._forward_check(var, assignment, removals)
forward_check(st, var, asg) ==
    LET RECURSIVE each_neighbor(_, _)
        each_neighbor(s, todo) ==
            IF todo = <<>> THEN [ok |-> TRUE, st |-> s]
            ELSE LET neighbor == Head(todo)
                 IN  IF neighbor \in DOMAIN asg THEN each_neighbor(s, Tail(todo))
                     ELSE LET p == PruneEach(s, neighbor, IterValues(s.D[neighbor]),
                                      LAMBDA nv : ~is_consistent(constraints, neighbor, nv, asg))
                              s2 == BumpCounter(p.st, "forward_prunes", p.count)
                          IN  IF s2.D[neighbor] = {} THEN [ok |-> FALSE, st |-> s2]
                              ELSE each_neighbor(s2, Tail(todo))
    IN  each_neighbor(st, IterVars(neighbors[var]))

\* One pass of a worklist loop, as the handlers' log keeps it: the queue when
\* the pass began, the queue and the length of the removals list when it
\* ended.
Pass(queue, after, removals) ==
    [queue |-> queue, after |-> after, removed |-> Len(removals)]

\* a _constraint_propagation without the test for an emptied neighbour domain
constraint_propagation_ignores_empty(st, var, asg) ==
    LET RECURSIVE while_queue(_, _, _)
        RECURSIVE each_neighbor(_, _, _, _, _)
        each_neighbor(s, began, queue, todo, log) ==
            IF todo = <<>>
            THEN while_queue(s, queue, Append(log, Pass(began, queue, s.removals)))
            ELSE LET neighbor == Head(todo)
                 IN  IF neighbor \in DOMAIN asg
                     THEN each_neighbor(s, began, queue, Tail(todo), log)
                     ELSE LET p == PruneEach(s, neighbor, IterValues(s.D[neighbor]),
                                      LAMBDA nv : ~is_consistent(constraints, neighbor, nv, asg))
                          IN  IF FALSE
                              THEN [ok |-> FALSE, st |-> p.st,
                                    log |-> Append(log, Pass(began, queue, p.st.removals))]
                              ELSE IF p.count > 0
                              THEN each_neighbor(BumpCounter(p.st, "propagation_steps", 1),
                                                 began, Append(queue, neighbor),
                                                 Tail(todo), log)
                              ELSE each_neighbor(p.st, began, queue, Tail(todo), log)
        while_queue(s, queue, log) ==
            IF queue = <<>> THEN [ok |-> TRUE, st |-> s, log |-> log]
            ELSE each_neighbor(s, queue, Tail(queue), IterVars(neighbors[Head(queue)]),
                               log)
    IN  while_queue(st, <<var>>, <<>>)

\* InferenceBacktrackingSolver._constraint_propagation(var, assignment, removals);
\* log holds one Pass per iteration of "while queue"
constraint_propagation(st, var, asg) ==
    LET RECURSIVE while_queue(_, _, _)
        RECURSIVE each_neighbor(_, _, _, _, _)
        each_neighbor(s, began, queue, todo, log) ==
            IF todo = <<>>
            THEN while_queue(s, queue, Append(log, Pass(began, queue, s.removals)))
            ELSE LET neighbor == Head(todo)
                 IN  IF neighbor \in DOMAIN asg
                     THEN each_neighbor(s, began, queue, Tail(todo), log)
                     ELSE LET p == PruneEach(s, neighbor, IterValues(s.D[neighbor]),
                                      LAMBDA nv : ~is_consistent(constraints, neighbor, nv, asg))
                          IN  IF p.st.D[neighbor] = {}
                              THEN [ok |-> FALSE, st |-> p.st,
                                    log |-> Append(log, Pass(began, queue, p.st.removals))]
                              ELSE IF p.count > 0
                              THEN each_neighbor(BumpCounter(p.st, "propagation_steps", 1),
                                                 began, Append(queue, neighbor),
                                                 Tail(todo), log)
                              ELSE each_neighbor(p.st, began, queue, Tail(todo), log)
        while_queue(s, queue, log) ==
            IF queue = <<>> THEN [ok |-> TRUE, st |-> s, log |-> log]
            ELSE each_neighbor(s, queue, Tail(queue), IterVars(neighbors[Head(queue)]),
                               log)
    IN  while_queue(st, <<var>>, <<>>)

\* InferenceBacktrackingSolver._has_support(xi, value, xj, assignment)
has_support(D, xi, value, xj, asg) ==
    /\ D[xj] # {}
    /\ \E neighbor_value \in D[xj] :
          is_consistent(constraints, xi, value,
                        Assign(Assign(asg, xi, value), xj, neighbor_value))

\* InferenceBacktrackingSolver._revise(xi, xj, assignment, removals)
revise(st, xi, xj, asg) ==
    LET p == PruneEach(st, xi, IterValues(st.D[xi]),
                       LAMBDA value : ~has_support(st.D, xi, value, xj, asg))
    IN  [revised |-> p.count > 0, st |-> p.st]

\* _arc_consistency revising the arcs into var only, none enqueued afterwards
arc_consistency_seed_arcs(st, var, asg) ==
    LET RECURSIVE while_queue(_, _)
        while_queue(s, arc_queue) ==
            IF arc_queue = <<>> THEN [ok |-> TRUE, st |-> s]
            ELSE LET xi == Head(arc_queue)[1]
                     xj == Head(arc_queue)[2]
                 IN  IF xi = xj \/ xi \notin DOMAIN s.D \/ xj \notin DOMAIN s.D
                     THEN while_queue(s, Tail(arc_queue))
                     ELSE LET r == revise(s, xi, xj, asg)
                          IN  IF ~r.revised THEN while_queue(r.st, Tail(arc_queue))
                              ELSE IF r.st.D[xi] = {} THEN [ok |-> FALSE, st |-> r.st]
                              ELSE while_queue(BumpCounter(r.st, "arc_revisions", 1),
                                               Tail(arc_queue))
    IN  while_queue(st, SeqMap(IterVars(neighbors[var]), LAMBDA neighbor : <<neighbor, var>>))

\* an _arc_consistency that appends the arcs (Xi, Xk) out of the revised
\* variable instead of the arcs (Xk, Xi) into it
arc_consistency_requeues_outward(st, var, asg) ==
    LET RECURSIVE while_queue(_, _, _)
        while_queue(s, arc_queue, log) ==
            IF arc_queue = <<>> THEN [ok |-> TRUE, st |-> s, log |-> log]
            ELSE LET xi == Head(arc_queue)[1]
                     xj == Head(arc_queue)[2]
                     rest == Tail(arc_queue)
                 IN  IF xi = xj \/ xi \notin DOMAIN s.D \/ xj \notin DOMAIN s.D
                     THEN while_queue(s, rest,
                                      Append(log, Pass(arc_queue, rest, s.removals)))
                     ELSE LET r == revise(s, xi, xj, asg)
                              done == Append(log, Pass(arc_queue, rest, r.st.removals))
                              more == rest \o SeqMap(SelectSeq(IterVars(neighbors[xi]),
                                                               LAMBDA xk : xk # xj),
                                                     LAMBDA xk : <<xi, xk>>)
                          IN  IF ~r.revised THEN while_queue(r.st, rest, done)
                              ELSE IF r.st.D[xi] = {}
                              THEN [ok |-> FALSE, st |-> r.st, log |-> done]
                              ELSE while_queue(
                                       BumpCounter(r.st, "arc_revisions", 1), more,
                                       Append(log, Pass(arc_queue, more, r.st.removals)))
    IN  while_queue(st, SeqMap(IterVars(neighbors[var]), LAMBDA neighbor : <<neighbor, var>>),
                    <<>>)

\* InferenceBacktrackingSolver._arc_consistency(var, assignment, removals);
\* log holds one Pass per iteration of "while arc_queue"
arc_consistency(st, var, asg) ==
    LET RECURSIVE while_queue(_, _, _)
        while_queue(s, arc_queue, log) ==
            IF arc_queue = <<>> THEN [ok |-> TRUE, st |-> s, log |-> log]
            ELSE LET xi == Head(arc_queue)[1]
                     xj == Head(arc_queue)[2]
                     rest == Tail(arc_queue)
                 IN  IF xi = xj \/ xi \notin DOMAIN s.D \/ xj \notin DOMAIN s.D
                     THEN while_queue(s, rest,
                                      Append(log, Pass(arc_queue, rest, s.removals)))
                     ELSE LET r == revise(s, xi, xj, asg)
                              done == Append(log, Pass(arc_queue, rest, r.st.removals))
                              more == rest \o SeqMap(SelectSeq(IterVars(neighbors[xi]),
                                                               LAMBDA xk : xk # xj),
                                                     LAMBDA xk : <<xk, xi>>)
                          IN  IF ~r.revised THEN while_queue(r.st, rest, done)
                              ELSE IF r.st.D[xi] = {}
                              THEN [ok |-> FALSE, st |-> r.st, log |-> done]
                              ELSE while_queue(
                                       BumpCounter(r.st, "arc_revisions", 1), more,
                                       Append(log, Pass(arc_queue, more, r.st.removals)))
    IN  while_queue(st, SeqMap(IterVars(neighbors[var]), LAMBDA neighbor : <<neighbor, var>>),
                    <<>>)

\* definition.handler(self, var, assignment, removals) of the named technique
Handler(name, st, var, asg) ==
    CASE name = "forward_checking" -> forward_check(st, var, asg)
      [] name = "constraint_propagation" -> constraint_propagation(st, var, asg)
      [] name = "arc_consistency" -> arc_consistency(st, var, asg)

\* a _restore that puts nothing back
restore_nothing(D, removals) == D

\* InferenceBacktrackingSolver._restore(removals): the domain map after it
restore(D, removals) ==
    LET RECURSIVE undo(_, _)
        undo(d, n) ==
            IF n = 0 THEN d
            ELSE undo([d EXCEPT ![removals[n][1]] = @ \cup {removals[n][2]}], n - 1)
    IN  undo(D, Len(removals))

\* InferenceBacktrackingSolver._select_unassigned_variable(assignment)
select_unassigned_variable(D, asg) ==
    LET unassigned == IterVars(variables \ DOMAIN asg)
    IN  IF unassigned = <<>> THEN NoneVar
        ELSE SortByKey(unassigned,
                       LAMBDA var : <<Cardinality(D[var])>> \o StrOfVar(var))[1]

\* InferenceBacktrackingSolver._order_values(var, assignment)
order_values(D, var) == IterValues(D[var])

\* ------------------------------------------------------------ SpecModel
\* Building a CSP with add_variable / add_constraint.

\* Domains offered to add_variable.
DomainInputs == {{}, {1, 2}}

\* Constraints offered to add_constraint.
ConstraintInputs ==
    {Constraint(<<"A", "B">>, "callable", {}, "not_equal"),
     Constraint(<<"B", "C">>, "set", {<<1, 2>>, <<2, 1>>}, ""),
     Constraint(<<"C", "A", "B">>, "callable", {}, "all_different"),
     Constraint(<<"A">>, "set", {<<1>>}, "")}

NoSearchCall == [fn |-> "none", flags |-> Flags(FALSE, FALSE, FALSE), result |-> None]

NoInstance ==
    [status |-> "none", self |-> instr_init(Flags(FALSE, FALSE, FALSE), 0), runs |-> <<>>]

NoCall == [op |-> "none", raised |-> "none", arg |-> <<>>, before |-> <<>>]

ModelInit ==
    /\ variables = {}
    /\ domains = [v \in {} |-> {}]
    /\ constraints = <<>>
    /\ lastCall = NoCall
    /\ hashOrder = <<>>
    /\ pc = "build"
    /\ call = NoSearchCall
    /\ instr = NoInstance
    /\ NoSolver

\* CSP.add_variable(var, domain)
add_variable(var, domain) ==
    /\ variables' = variables \cup {var}
    /\ domains' = [v \in DOMAIN domains \cup {var} |->
                      IF v = var THEN domain ELSE domains[v]]
    /\ lastCall' = [op |-> "add_variable", raised |-> "none",
                    arg |-> <<var, domain>>, before |-> <<variables, domains>>]
    /\ UNCHANGED <<constraints, hashOrder, pc, searchVars, infVars>>

\* CSP.add_constraint(constraint)
add_constraint(c) ==
    /\ Len(constraints) < MaxConstraints
    /\ IF ScopeRegistered(variables, c)
       THEN /\ constraints' = Append(constraints, c)
            /\ lastCall' = [op |-> "add_constraint", raised |-> "none",
                            arg |-> c, before |-> constraints]
       ELSE /\ constraints' = constraints
            /\ lastCall' = [op |-> "add_constraint", raised |-> "ValueError",
                            arg |-> c, before |-> constraints]
    /\ UNCHANGED <<variables, domains, hashOrder, pc, searchVars, infVars>>

AddVariable == \E var \in VarNames, domain \in DomainInputs : add_variable(var, domain)

AddConstraint == \E c \in ConstraintInputs : add_constraint(c)

ModelNext == AddVariable \/ AddConstraint

SpecModel == ModelInit /\ [][ModelNext]_vars

\* ------------------------------------------------------------ SpecSearch
\* The searches of backtracking.py and heuristic_backtracking.py run on a CSP
\* that add_variable / add_constraint have built.

Orderings(S) ==
    {p \in [1..Cardinality(S) -> S] : \A i, j \in DOMAIN p : i # j => p[i] # p[j]}

NotEqual(x, y) == Constraint(<<x, y>>, "callable", {}, "not_equal")

\* The registered variable sets of the CSPs solved.
CSPVariables == {{}, {"A"}, {"A", "B"}, {"A", "B", "C"}}

\* Domain maps of the CSPs solved: every variable with {1, 2} or {1, 2, 3};
\* sizes 1, 2, 3; sizes 1, 1, 2; and one empty domain.
DomainMaps(vs) ==
    {[v \in vs |-> {1, 2}],
     [v \in vs |-> {1, 2, 3}],
     [v \in vs |-> CASE v = "A" -> {1} [] v = "B" -> {1, 2} [] OTHER -> {1, 2, 3}],
     [v \in vs |-> CASE v = "C" -> {1, 2} [] OTHER -> {1}],
     [v \in vs |-> CASE v = "A" -> {} [] OTHER -> {1, 2}]}

\* Values whose str() order differs from their numeric order.
TwoDigitDomainMaps(vs) == {[v \in vs |-> {2, 12}]}

LessThan(x, y) == Constraint(<<x, y>>, "callable", {}, "less_than")
Permitted(scope, tuples) == Constraint(scope, "set", tuples, "")

\* Constraint lists of the CSPs solved, by registered variable set.
ConstraintLists(vs) ==
    CASE vs = {} -> {<<>>}
      [] vs = {"A"} -> {<<>>, <<Permitted(<<"A">>, {<<2>>})>>}
      [] vs = {"A", "B"} ->
            {<<>>,
             <<NotEqual("A", "B")>>,
             <<LessThan("B", "A")>>,
             <<Permitted(<<"A", "B">>, {<<1, 2>>, <<2, 1>>, <<2, 3>>}),
               Permitted(<<"B">>, {<<2>>, <<3>>})>>}
      [] OTHER ->
            {<<NotEqual("A", "B")>>,
             <<NotEqual("A", "B"), NotEqual("B", "C")>>,
             <<NotEqual("A", "B"), NotEqual("B", "C"), NotEqual("A", "C")>>,
             <<LessThan("A", "B"), LessThan("B", "C")>>,
             <<Permitted(<<"A", "B">>, {<<1, 2>>, <<2, 1>>, <<2, 3>>}),
               Permitted(<<"C">>, {<<2>>, <<3>>}), NotEqual("C", "B")>>,
             <<Constraint(<<"A", "B", "C">>, "callable", {}, "all_different")>>}

CSPs(Maps(_)) ==
    UNION {{[variables |-> vs, domains |-> ds, constraints |-> cs] :
               ds \in Maps(vs), cs \in ConstraintLists(vs)} :
           vs \in CSPVariables}

SearchDomainMaps(vs) == DomainMaps(vs) \cup TwoDigitDomainMaps(vs)

SearchCSPs == CSPs(SearchDomainMaps)

SearchInit ==
    \E csp \in SearchCSPs :
        /\ variables = csp.variables
        /\ domains = csp.domains
        /\ constraints = csp.constraints
        /\ hashOrder \in Orderings(csp.variables)
        /\ lastCall = NoCall
        /\ pc = "idle"
        /\ call = NoSearchCall
        /\ instr = NoInstance
        /\ NoSolver

\* result = backtracking_search(csp)
CallBacktrackingSearch ==
    /\ pc = "idle"
    /\ call' = [fn |-> "backtracking_search", flags |-> Flags(FALSE, FALSE, FALSE),
                result |-> backtracking_search]
    /\ pc' = "returned"
    /\ UNCHANGED <<variables, domains, constraints, lastCall, hashOrder, instr, infVars>>

\* result = heuristic_backtracking_search(csp, use_mrv=, use_degree=, use_lcv=)
CallHeuristicSearch ==
    \E flags \in AllFlags :
        /\ pc = "idle"
        /\ call' = [fn |-> "heuristic_backtracking_search", flags |-> flags,
                    result |-> heuristic_backtracking_search(flags)]
        /\ pc' = "returned"
        /\ UNCHANGED <<variables, domains, constraints, lastCall, hashOrder, instr, infVars>>

\* solver = InstrumentedHeuristicBacktracking(use_mrv=, ..., progress_interval=)
InstrConstruct ==
    \E flags \in AllFlags, progress_interval \in 0..MaxProgressInterval :
        /\ pc = "idle"
        /\ instr' = [status |-> "ready", self |-> instr_init(flags, progress_interval),
                     runs |-> <<>>]
        /\ pc' = "instrumented"
        /\ UNCHANGED <<variables, domains, constraints, lastCall, hashOrder, call, infVars>>

\* the instance once solve_with_metrics has ended with out, and the record
\* of what the call returned or raised
InstanceAfter(out) ==
    [status |-> "ready", self |-> out.self,
     runs |-> Append(instr.runs, [raised |-> out.raised, solution |-> out.solution,
                                  metrics |-> out.metrics])]

\* solver.solve_with_metrics(csp)
InstrSolve ==
    /\ pc = "instrumented"
    /\ Len(instr.runs) < MaxSolves
    /\ instr' = InstanceAfter(instr_solve_with_metrics(instr.self, <<>>))
    /\ UNCHANGED <<variables, domains, constraints, lastCall, hashOrder, call, pc, infVars>>

SearchNext == CallBacktrackingSearch \/ CallHeuristicSearch \/ InstrConstruct \/ InstrSolve

SpecSearch == SearchInit /\ [][SearchNext]_vars

\* ------------------------------------------------------------ SpecInitial
\* solve_with_metrics called with an initial assignment.

\* The values offered in an initial assignment.
InitialValues == {1, 2, 3}

\* The initial_assignment dicts, as the list of their items: up to
\* MaxInitial pairs with distinct keys, of variables of the CSP or not, with
\* values of their domains or not.
RECURSIVE ItemLists(_)
ItemLists(n) ==
    IF n = 0 THEN {<<>>}
    ELSE ItemLists(n - 1) \cup
         {Append(items, <<var, value>>) :
             items \in {l \in ItemLists(n - 1) : Len(l) = n - 1},
             var \in VarNames, value \in InitialValues}

InitialAssignments ==
    {items \in ItemLists(MaxInitial) :
        \A i, j \in DOMAIN items : i # j => items[i][1] # items[j][1]}

\* solution, metrics = solver.solve_with_metrics(csp, initial_assignment=...)
\* on a new solver
CallSolveWithInitial ==
    /\ pc = "idle"
    /\ \E flags \in AllFlags, initial_assignment \in InitialAssignments :
        /\ call' = [fn |-> "solve_with_metrics", flags |-> flags,
                    initial_assignment |-> initial_assignment,
                    result |-> instr_solve_with_metrics(instr_init(flags, 0),
                                                        initial_assignment)]
        /\ pc' = "returned"
        /\ UNCHANGED <<variables, domains, constraints, lastCall, hashOrder, instr, infVars>>

SpecInitial == SearchInit /\ [][SearchNext \/ CallSolveWithInitial]_vars

\* ------------------------------------------------------------ SpecHelpers
\* The public helpers of heuristic_backtracking.py called on a CSP with a
\* partial assignment.

\* The partial assignments over the declared domains.
PartialAssignments ==
    UNION {{a \in [vs -> UNION {domains[v] : v \in vs}] :
               \A v \in vs : a[v] \in domains[v]} :
           vs \in SUBSET variables}

Reverse(seq) == [i \in 1..Len(seq) |-> seq[Len(seq) + 1 - i]]

\* The value lists handed to order_domain_values: the legal values of var in
\* domain order (as _recursive_backtrack passes them), the same reversed, and
\* the whole domain (as the tests pass it).
LegalValueInputs(var, asg) ==
    {get_legal_values(var, asg), Reverse(get_legal_values(var, asg)),
     IterValues(domains[var])}

\* var, legal_values = select_unassigned_variable(csp, assignment, neighbors, ...)
CallSelect ==
    /\ pc = "idle"
    /\ \E asg \in PartialAssignments, use_mrv \in BOOLEAN, use_degree \in BOOLEAN :
        /\ call' = [fn |-> "select_unassigned_variable",
                    flags |-> Flags(use_mrv, use_degree, FALSE),
                    asg |-> asg,
                    result |-> public_select_unassigned_variable(
                                   asg, build_neighbors(variables, constraints),
                                   use_mrv, use_degree)]
        /\ pc' = "returned"
        /\ UNCHANGED <<variables, domains, constraints, lastCall, hashOrder, instr, infVars>>

\* ordered = order_domain_values(csp, var, legal_values, assignment, neighbors, ...)
\* for a variable the assignment does not hold
CallOrder ==
    /\ pc = "idle"
    /\ \E asg \in PartialAssignments, use_lcv \in BOOLEAN :
        \E var \in variables \ DOMAIN asg :
        \E legal_values \in LegalValueInputs(var, asg) :
            /\ call' = [fn |-> "order_domain_values",
                        flags |-> Flags(FALSE, FALSE, use_lcv),
                        asg |-> asg, var |-> var, legal_values |-> legal_values,
                        result |-> public_order_domain_values(
                                       var, legal_values, asg,
                                       build_neighbors(variables, constraints), use_lcv),
                        after |-> order_domain_values_leaves(asg, var, legal_values,
                                                             use_lcv)]
            /\ pc' = "returned"
            /\ UNCHANGED <<variables, domains, constraints, lastCall, hashOrder, instr,
                           infVars>>

\* constraint.is_satisfied(assignment) for a constraint of the CSP
CallIsSatisfied ==
    /\ pc = "idle"
    /\ \E i \in DOMAIN constraints, asg \in PartialAssignments :
        /\ call' = [fn |-> "is_satisfied", constraint |-> constraints[i], asg |-> asg,
                    result |-> is_satisfied(constraints[i], asg)]
        /\ pc' = "returned"
        /\ UNCHANGED <<variables, domains, constraints, lastCall, hashOrder, instr, infVars>>

\* csp.is_consistent(var, value, assignment), var assigned already or not
CallIsConsistent ==
    /\ pc = "idle"
    /\ \E asg \in PartialAssignments, var \in variables :
        \E value \in domains[var] :
            /\ call' = [fn |-> "is_consistent", var |-> var, value |-> value, asg |-> asg,
                        result |-> is_consistent(constraints, var, value, asg),
                        after |-> is_consistent_leaves(asg, var, value)]
            /\ pc' = "returned"
            /\ UNCHANGED <<variables, domains, constraints, lastCall, hashOrder, instr,
                           infVars>>

\* n = count_solutions(csp, max_count)
CallCountSolutions ==
    /\ pc = "idle"
    /\ \E max_count \in 0..MaxCount :
        /\ call' = [fn |-> "count_solutions", max_count |-> max_count,
                    result |-> count_solutions(max_count)]
        /\ pc' = "returned"
        /\ UNCHANGED <<variables, domains, constraints, lastCall, hashOrder, instr, infVars>>

\* The partial assignments a search can hold when it makes a recursive call:
\* every value was added after csp.is_consistent accepted it, so no
\* constraint is violated.
SearchAssignments ==
    {asg \in PartialAssignments :
        \A i \in DOMAIN constraints : is_satisfied(constraints[i], asg)}

\* backtracking._recursive_backtrack(csp, assignment) on a dict that holds a
\* partial assignment
CallBasicRecursive ==
    /\ pc = "idle"
    /\ \E asg \in SearchAssignments :
        /\ call' = [fn |-> "backtracking._recursive_backtrack",
                    flags |-> Flags(FALSE, FALSE, FALSE), asg |-> asg,
                    result |-> bt_recursive_backtrack(asg)]
        /\ pc' = "returned"
        /\ UNCHANGED <<variables, domains, constraints, lastCall, hashOrder, instr, infVars>>

\* heuristic_backtracking._recursive_backtrack(csp, assignment, neighbors, flags)
\* on a dict that holds a partial assignment; sel is what the call's
\* _select_unassigned_variable returns
CallHeuristicRecursive ==
    /\ pc = "idle"
    /\ \E asg \in SearchAssignments, flags \in AllFlags :
        LET nbrs == build_neighbors(variables, constraints)
        IN  /\ call' = [fn |-> "heuristic_backtracking._recursive_backtrack",
                        flags |-> flags, asg |-> asg,
                        sel |-> heuristic_select_unassigned_variable(asg, nbrs, flags),
                        result |-> heuristic_recursive_backtrack(asg, nbrs, flags)]
            /\ pc' = "returned"
            /\ UNCHANGED <<variables, domains, constraints, lastCall, hashOrder, instr,
                           infVars>>

\* solver._instrumented_recursive_backtrack(assignment) on a fresh solver and
\* a dict that holds a partial assignment; sel is what the call's
\* _select_unassigned_variable returns, result.self the solver afterwards
CallInstrRecursive ==
    /\ pc = "idle"
    /\ \E asg \in SearchAssignments, flags \in AllFlags :
        LET nbrs == build_neighbors(variables, constraints)
            self == instr_init(flags, 0)
        IN  /\ call' = [fn |-> "_instrumented_recursive_backtrack",
                        flags |-> flags, asg |-> asg,
                        sel |-> instr_select_unassigned_variable(instr_enter(self),
                                                                 asg, nbrs),
                        result |-> instrumented_recursive_backtrack(self, asg, nbrs)]
            /\ pc' = "returned"
            /\ UNCHANGED <<variables, domains, constraints, lastCall, hashOrder, instr,
                           infVars>>

HelpersNext ==
    \/ CallSelect \/ CallOrder \/ CallIsSatisfied \/ CallIsConsistent
    \/ CallCountSolutions
    \/ CallBasicRecursive \/ CallHeuristicRecursive \/ CallInstrRecursive

\* Four variables on the chain D - A - B - C of inequalities: with D assigned,
\* A has as many neighbours as B and fewer unassigned ones.
ChainCSPs ==
    {[variables |-> {"A", "B", "C", "D"},
      domains |-> ds,
      constraints |-> <<NotEqual("A", "D"), NotEqual("A", "B"), NotEqual("B", "C")>>] :
        ds \in {[v \in {"A", "B", "C", "D"} |-> {1, 2}],
                [v \in {"A", "B", "C", "D"} |-> IF v = "B" THEN {1, 2, 3} ELSE {1, 2}]}}

HelperCSPs == SearchCSPs \cup ChainCSPs

HelpersInit ==
    \E csp \in HelperCSPs :
        /\ variables = csp.variables
        /\ domains = csp.domains
        /\ constraints = csp.constraints
        /\ hashOrder \in Orderings(csp.variables)
        /\ lastCall = NoCall
        /\ pc = "idle"
        /\ call = NoSearchCall
        /\ instr = NoInstance
        /\ NoSolver

SpecHelpers == HelpersInit /\ [][HelpersNext]_vars

\* ------------------------------------------------------------ SpecCh5
\* chapter5_local_search_csp/ch5: BacktrackingSolver with its default
\* strategies (MRVStrategy, OrderedDomainStrategy) and an inference strategy.
\* csp.variables is a list, in the order of the add_variable calls, here
\* hashOrder; csp.domains is never written by these strategies.

\* The inference_strategy arguments of BacktrackingSolver.
InferenceStrategies == {"None", "NoInference", "ForwardChecking"}

\* CSP.get_neighbors(variable): the sets CSP.add_constraint builds
get_neighbors(var) ==
    {other_var \in variables :
        /\ other_var # var
        /\ \E i \in DOMAIN constraints :
               {var, other_var} \subseteq ScopeSet(constraints[i].scope)}

\* MRVStrategy.select_variable: min() returns the first unassigned variable of
\* the list with the smallest domain
MRVStrategy_select_variable(asg) ==
    LET unassigned == SelectSeq(hashOrder, LAMBDA var : var \notin DOMAIN asg)
        smallest == SeqMin(SeqMap(unassigned, LAMBDA var : Cardinality(domains[var])))
    IN  SelectSeq(unassigned, LAMBDA var : Cardinality(domains[var]) = smallest)[1]

\* OrderedDomainStrategy.order_values
OrderedDomainStrategy_order_values(var) == IterValues(domains[var])

\* remaining_values of ForwardChecking.infer for a neighbour, assignment
\* holding variable = value already
remaining_values(neighbor, asg) ==
    {neighbor_value \in domains[neighbor] :
        is_consistent(constraints, neighbor, neighbor_value, asg)}

\* ForwardChecking.infer(csp, variable, value, assignment): None (found
\* FALSE) when a neighbour has no value left, else the neighbours left with
\* one value, each with that value
ForwardChecking_infer(variable, value, asg) ==
    LET assignment_copy == Assign(asg, variable, value)
        open == {neighbor \in get_neighbors(variable) : neighbor \notin DOMAIN asg}
        single == {neighbor \in open :
                      Cardinality(remaining_values(neighbor, assignment_copy)) = 1}
    IN  IF \E neighbor \in open : remaining_values(neighbor, assignment_copy) = {}
        THEN None
        ELSE Found([neighbor \in single |->
                       CHOOSE v \in remaining_values(neighbor, assignment_copy) : TRUE])

\* self.inference_strategy.infer(...), {} without a strategy
infer(strategy, variable, value, asg) ==
    IF strategy = "ForwardChecking" THEN ForwardChecking_infer(variable, value, asg)
    ELSE Found(EmptyAssignment)

\* for inf_var, inf_val in inferences.items(): assignment[inf_var] = inf_val
AddInferences(asg, inferences) ==
    [v \in DOMAIN asg \cup DOMAIN inferences |->
        IF v \in DOMAIN inferences THEN inferences[v] ELSE asg[v]]

RECURSIVE BacktrackingSolver_backtrack(_, _)
RECURSIVE BacktrackingSolver_try_values(_, _, _, _)

\* the loop "for value in ...order_values(csp, var, assignment)" of _backtrack
BacktrackingSolver_try_values(asg, strategy, var, values) ==
    IF values = <<>> THEN None
    ELSE IF ~is_consistent(constraints, var, Head(values), asg)
         THEN BacktrackingSolver_try_values(asg, strategy, var, Tail(values))
         ELSE LET assigned == Assign(asg, var, Head(values))
                  inferences == infer(strategy, var, Head(values), assigned)
              IN  IF ~inferences.found
                  THEN BacktrackingSolver_try_values(asg, strategy, var, Tail(values))
                  ELSE LET result == BacktrackingSolver_backtrack(
                                         AddInferences(assigned, inferences.assignment),
                                         strategy)
                       IN  IF result.found THEN result
                           ELSE BacktrackingSolver_try_values(asg, strategy, var,
                                                              Tail(values))

\* BacktrackingSolver._backtrack(csp, assignment)
BacktrackingSolver_backtrack(asg, strategy) ==
    IF is_complete(variables, asg) THEN Found(asg)
    ELSE LET var == MRVStrategy_select_variable(asg)
         IN  BacktrackingSolver_try_values(asg, strategy, var,
                                           OrderedDomainStrategy_order_values(var))

\* BacktrackingSolver.solve(csp)
BacktrackingSolver_solve(strategy) == BacktrackingSolver_backtrack(EmptyAssignment, strategy)

\* The CSPs of BinaryConstraint objects only.
Ch5CSPs ==
    {csp \in CSPs(DomainMaps) :
        \A i \in DOMAIN csp.constraints :
            csp.constraints[i].kind = "callable" /\ Len(csp.constraints[i].scope) = 2}

Ch5Init ==
    \E csp \in Ch5CSPs :
        /\ variables = csp.variables
        /\ domains = csp.domains
        /\ constraints = csp.constraints
        /\ hashOrder \in Orderings(csp.variables)
        /\ lastCall = NoCall
        /\ pc = "idle"
        /\ call = NoSearchCall
        /\ instr = NoInstance
        /\ NoSolver

\* BacktrackingSolver(inference_strategy=strategy).solve(csp)
Ch5Solve ==
    /\ pc = "idle"
    /\ \E strategy \in InferenceStrategies :
        /\ call' = [fn |-> "BacktrackingSolver.solve", strategy |-> strategy,
                    result |-> BacktrackingSolver_solve(strategy)]
        /\ pc' = "returned"
        /\ UNCHANGED <<variables, domains, constraints, lastCall, hashOrder, instr, infVars>>

SpecCh5 == Ch5Init /\ [][Ch5Solve]_vars

\* ------------------------------------------------------------ Spec
\* InferenceBacktrackingSolver: construction, then solve_with_metrics calls,
\* each a depth-first search followed step by step.

\* Technique sequences given to the constructor: every order of every
\* selection of names, each name at most once; "bogus" is not registered.
TechniqueInputs ==
    {names \in UNION {[1..n -> TECHNIQUES \cup {"bogus"}] : n \in 0..MaxTechniques} :
        \A i, j \in DOMAIN names : i # j => names[i] # names[j]}

\* current_domains[var] = domain: the CSP's own set object, not a copy
domain_alias(var) == "csp"

\* set(domain) in _prepare: a new set object, owned by the solver
domain_copy(var) == "own"

\* The working domain map as the solver reads it through current_domains.
Cur ==
    [v \in DOMAIN current_domains |->
        IF current_domains[v] = "csp" THEN domains[v] ELSE work[v]]

\* Storing the working domain map D into the set objects current_domains holds.
WriteBack(D) ==
    /\ work' = [v \in DOMAIN work |->
                   IF current_domains[v] = "own" THEN D[v] ELSE work[v]]
    /\ domains' = [v \in DOMAIN domains |->
                      IF v \in DOMAIN current_domains /\ current_domains[v] = "csp"
                      THEN D[v] ELSE domains[v]]

fixedVars == <<variables, constraints, lastCall, hashOrder, searchVars, declared>>

\* An active _backtrack call: its variable, the values still to try and the
\* removals list of the running attempt. entry and held are records of the
\* working domains and of the assignment dict when the call was entered; the
\* code keeps no such copies and no action reads them.
Frame(var, values, removals) ==
    [var |-> var, values |-> values, removals |-> removals, entry |-> Cur,
     held |-> assignment]

Top == stack[Len(stack)]

ReplaceTop(frame) == [stack EXCEPT ![Len(stack)] = frame]

\* an unknown-name check that looks at the first name only
unknown_leading(names) ==
    IF names # <<>> /\ names[1] \notin TECHNIQUES THEN <<names[1]>> ELSE <<>>

\* unknown = [name for name in techniques if name not in self.TECHNIQUES]
unknown(names) == SelectSeq(names, LAMBDA name : name \notin TECHNIQUES)

\* InferenceBacktrackingSolver.__init__(techniques)
Construct ==
    \E names \in TechniqueInputs :
        /\ pc = "idle"
        /\ IF unknown(names) # <<>>
           THEN /\ pc' = "UnknownTechniqueError"
                /\ lastCall' = [op |-> "InferenceBacktrackingSolver",
                                raised |-> "UnknownTechniqueError",
                                arg |-> names, before |-> <<>>]
                /\ UNCHANGED techniques
           ELSE /\ pc' = "constructed"
                /\ lastCall' = [op |-> "InferenceBacktrackingSolver", raised |-> "none",
                                arg |-> names, before |-> <<>>]
                /\ techniques' = names
        /\ UNCHANGED <<domains, variables, constraints, hashOrder, searchVars, declared,
                       neighbors, current_domains, work, counters, assignment, stack,
                       tech, runs>>

\* InferenceBacktrackingSolver._prepare(csp), at the head of solve_with_metrics,
\* which then calls _backtrack({}, depth=0)
Prepare ==
    /\ pc = "constructed"
    /\ Len(runs) < MaxSolves
    /\ neighbors' = build_neighbors(variables, constraints)
    /\ current_domains' = [v \in DOMAIN domains |-> domain_copy(v)]
    /\ work' = [v \in DOMAIN domains |-> domains[v]]
    /\ counters' = ZeroInferenceCounters
    /\ assignment' = EmptyAssignment
    /\ stack' = <<>>
    /\ tech' = 0
    /\ pc' = "enter"
    /\ UNCHANGED <<domains, fixedVars, techniques, runs>>

\* _backtrack entry with a complete assignment: return dict(assignment)
EnterComplete ==
    /\ pc = "enter"
    /\ Cardinality(DOMAIN assignment) = Cardinality(variables)
    /\ counters' = [counters EXCEPT !.nodes_expanded = @ + 1,
                                    !.max_depth = IF Len(stack) > @ THEN Len(stack) ELSE @]
    /\ pc' = "found"
    /\ UNCHANGED <<domains, fixedVars, techniques, neighbors, current_domains, work,
                   assignment, stack, tech, runs>>

\* _backtrack entry otherwise: select the variable and list its values
EnterSelect ==
    /\ pc = "enter"
    /\ Cardinality(DOMAIN assignment) # Cardinality(variables)
    /\ counters' = [counters EXCEPT !.nodes_expanded = @ + 1,
                                    !.max_depth = IF Len(stack) > @ THEN Len(stack) ELSE @]
    /\ LET var == select_unassigned_variable(Cur, assignment)
       IN  IF var = NoneVar
           THEN /\ pc' = IF stack = <<>> THEN "failed" ELSE "undo"
                /\ UNCHANGED stack
           ELSE /\ stack' = Append(stack, Frame(var, order_values(Cur, var), <<>>))
                /\ pc' = "loop"
    /\ UNCHANGED <<domains, fixedVars, techniques, neighbors, current_domains, work,
                   assignment, tech, runs>>

\* for value in ordered_values: a value inconsistent with the assignment
SkipValue ==
    /\ pc = "loop"
    /\ Top.values # <<>>
    /\ ~is_consistent(constraints, Top.var, Head(Top.values), assignment)
    /\ stack' = ReplaceTop([Top EXCEPT !.values = Tail(@)])
    /\ UNCHANGED <<pc, domains, fixedVars, techniques, neighbors, current_domains, work,
                   counters, assignment, tech, runs>>

\* for value in ordered_values: assignment[var] = value; removals = [];
\* then _apply_inference begins with _restrict_to_assignment and, with no
\* technique configured, returns True: _backtrack(assignment, depth + 1) is next
TryValue ==
    /\ pc = "loop"
    /\ Top.values # <<>>
    /\ is_consistent(constraints, Top.var, Head(Top.values), assignment)
    /\ assignment' = Assign(assignment, Top.var, Head(Top.values))
    /\ LET r == restrict_to_assignment(SearchState(Cur, <<>>, counters),
                                       Top.var, Head(Top.values))
       IN  /\ WriteBack(r.st.D)
           /\ stack' = ReplaceTop([Top EXCEPT !.values = Tail(@),
                                              !.removals = r.st.removals])
           /\ pc' = IF ~r.ok THEN "undo"
                    ELSE IF techniques = <<>> THEN "enter" ELSE "infer"
    /\ tech' = 1
    /\ UNCHANGED <<fixedVars, techniques, neighbors, current_domains, counters, runs>>

\* _apply_inference: the next technique's handler runs; after the last one
\* _apply_inference returns True and _backtrack(assignment, depth + 1) is next
ApplyTechnique ==
    /\ pc = "infer"
    /\ LET r == Handler(techniques[tech], SearchState(Cur, Top.removals, counters),
                        Top.var, assignment)
       IN  /\ WriteBack(r.st.D)
           /\ stack' = ReplaceTop([Top EXCEPT !.removals = r.st.removals])
           /\ counters' = r.st.counters
           /\ pc' = IF ~r.ok THEN "undo"
                    ELSE IF tech = Len(techniques) THEN "enter" ELSE "infer"
    /\ tech' = tech + 1
    /\ UNCHANGED <<fixedVars, techniques, neighbors, current_domains, assignment, runs>>

\* the undo of a failed attempt without the _restore(removals) call
Undo_without_restore ==
    /\ pc = "undo"
    /\ counters' = [counters EXCEPT !.backtracks = @ + 1]
    /\ WriteBack(Cur)
    /\ assignment' = Unassign(assignment, Top.var)
    /\ stack' = ReplaceTop([Top EXCEPT !.removals = <<>>])
    /\ pc' = "loop"
    /\ UNCHANGED <<fixedVars, techniques, neighbors, current_domains, tech, runs>>

\* the attempt failed: _backtracks += 1; _restore(removals); del assignment[var]
Undo ==
    /\ pc = "undo"
    /\ counters' = [counters EXCEPT !.backtracks = @ + 1]
    /\ WriteBack(restore(Cur, Top.removals))
    /\ assignment' = Unassign(assignment, Top.var)
    /\ stack' = ReplaceTop([Top EXCEPT !.removals = <<>>])
    /\ pc' = "loop"
    /\ UNCHANGED <<fixedVars, techniques, neighbors, current_domains, tech, runs>>

\* the values are exhausted: this _backtrack call returns None
Exhausted ==
    /\ pc = "loop"
    /\ Top.values = <<>>
    /\ stack' = SubSeq(stack, 1, Len(stack) - 1)
    /\ pc' = IF Len(stack) = 1 THEN "failed" ELSE "undo"
    /\ UNCHANGED <<domains, fixedVars, techniques, neighbors, current_domains, work,
                   counters, assignment, tech, runs>>

\* the solution is returned through every active call; solve_with_metrics
\* returns (solution, metrics)
ReturnSolution ==
    /\ pc = "found"
    /\ runs' = Append(runs, [solution |-> Found(assignment), metrics |-> counters])
    /\ stack' = <<>>
    /\ pc' = "constructed"
    /\ UNCHANGED <<domains, fixedVars, techniques, neighbors, current_domains, work,
                   counters, assignment, tech>>

\* the root call returned None; solve_with_metrics returns (None, metrics)
ReturnNone ==
    /\ pc = "failed"
    /\ runs' = Append(runs, [solution |-> None, metrics |-> counters])
    /\ pc' = "constructed"
    /\ UNCHANGED <<domains, fixedVars, techniques, neighbors, current_domains, work,
                   counters, assignment, stack, tech>>

InferenceNext ==
    \/ Construct \/ Prepare \/ EnterComplete \/ EnterSelect \/ SkipValue \/ TryValue
    \/ ApplyTechnique \/ Undo \/ Exhausted \/ ReturnSolution \/ ReturnNone

InferenceCSPs == CSPs(DomainMaps)

InferenceInit ==
    \E csp \in InferenceCSPs :
        /\ variables = csp.variables
        /\ domains = csp.domains
        /\ constraints = csp.constraints
        /\ hashOrder \in Orderings(csp.variables)
        /\ lastCall = NoCall
        /\ pc = "idle"
        /\ call = NoSearchCall
        /\ instr = NoInstance
        /\ NoSolver

Spec == InferenceInit /\ [][InferenceNext]_vars

\* The four recursive searches of ch5_dev: the recursive functions of the
\* basic, heuristic and instrumented searches called on a partial assignment,
\* and the inference solver step by step.
RecursionNext ==
    CallBasicRecursive \/ CallHeuristicRecursive \/ CallInstrRecursive \/ InferenceNext

SpecRecursion == InferenceInit /\ [][RecursionNext]_vars

\* Every solver of the package, on the CSPs of SpecSearch.
SpecAll == SearchInit /\ [][SearchNext \/ InferenceNext]_vars

\* ------------------------------------------------------------ properties
\* The complete assignments over the declared domains.
Assignments ==
    {a \in [variables -> UNION {declared[v] : v \in variables}] :
        \A v \in variables : a[v] \in declared[v]}

\* The solutions of the CSP.
Solutions == {a \in Assignments : is_solution(variables, constraints, a)}

\* a extends the partial assignment asg
Extends(a, asg) == \A v \in DOMAIN asg : v \in DOMAIN a /\ a[v] = asg[v]

\* The positions of a running _backtrack.
SearchPcs == {"enter", "loop", "infer", "undo", "found"}

\* C1 (soundness of InferenceBacktrackingSolver): every non-None assignment a
\* solve_with_metrics call returned, under any sequence of the three
\* techniques, assigns every variable of the CSP a value of its declared
\* domain and satisfies is_solution.
C1_Soundness ==
    \A i \in DOMAIN runs :
        runs[i].solution.found =>
            /\ DOMAIN runs[i].solution.assignment = variables
            /\ \A v \in variables : runs[i].solution.assignment[v] \in declared[v]
            /\ is_solution(variables, constraints, runs[i].solution.assignment)

\* A search with forward checking and arc consistency that backtracked and
\* then returned an assignment of three variables.
C1_Witness ==
    /\ Cardinality(variables) = 3
    /\ techniques = <<"forward_checking", "arc_consistency">>
    /\ runs # <<>>
    /\ runs[1].solution.found
    /\ runs[1].metrics.backtracks > 0

\* C2 (completeness of InferenceBacktrackingSolver): on a CSP whose domains
\* are all non-empty, a solve_with_metrics call returns an assignment exactly
\* when the CSP has a solution, and while the search runs every solution that
\* extends the current assignment still has all its values in the working
\* domains: no technique prunes a value of such a solution.
C2_Completeness ==
    (\A v \in variables : declared[v] # {}) =>
        /\ \A i \in DOMAIN runs : runs[i].solution.found <=> Solutions # {}
        /\ pc \in SearchPcs =>
              \A a \in Solutions :
                  Extends(a, assignment) => \A v \in variables : a[v] \in Cur[v]

\* A solvable CSP with non-empty domains on which a search running two
\* techniques pruned values, backtracked, and returned an assignment.
C2_Witness ==
    /\ \A v \in variables : declared[v] # {}
    /\ Len(techniques) = 2
    /\ runs # <<>>
    /\ runs[1].solution.found
    /\ runs[1].metrics.backtracks > 0
    /\ runs[1].metrics.forward_prunes + runs[1].metrics.arc_revisions
         + runs[1].metrics.propagation_steps > 0

\* C5 (unknown technique): when a name outside forward_checking,
\* constraint_propagation, arc_consistency is in the sequence given to the
\* constructor, the construction raises UnknownTechniqueError whatever the
\* other names are, and neither _prepare nor _backtrack ever runs: no node is
\* expanded, no working domain exists, the CSP's domains are untouched and no
\* solve returns.
C5_UnknownTechnique ==
    (/\ lastCall.op = "InferenceBacktrackingSolver"
     /\ \E i \in DOMAIN lastCall.arg :
           lastCall.arg[i] \notin
               {"forward_checking", "constraint_propagation", "arc_consistency"})
    => /\ lastCall.raised = "UnknownTechniqueError"
       /\ pc = "UnknownTechniqueError"
       /\ counters.nodes_expanded = 0
       /\ current_domains = <<>>
       /\ stack = <<>>
       /\ runs = <<>>
       /\ domains = declared

\* A construction that raised although the first name requested is valid.
C5_Witness ==
    /\ pc = "UnknownTechniqueError"
    /\ Len(lastCall.arg) = 2
    /\ lastCall.arg[1] = "forward_checking"
    /\ lastCall.arg[2] \notin TECHNIQUES
    /\ Cardinality(variables) = 3

\* C3 (heuristics keep the outcome): for each of the 8 combinations of
\* use_mrv / use_degree / use_lcv, heuristic_backtracking_search returns an
\* assignment exactly when backtracking_search does on the same CSP, and every
\* assignment either of them returns satisfies is_solution.
C3_HeuristicsKeepOutcome ==
    /\ call.fn = "heuristic_backtracking_search" =>
          (call.result.found <=> backtracking_search.found)
    /\ call.fn # "none" /\ call.result.found =>
          is_solution(variables, constraints, call.result.assignment)

\* A heuristic search with all three heuristics on that returned an assignment
\* of three constrained variables.
C3_Witness ==
    /\ call.fn = "heuristic_backtracking_search"
    /\ call.flags = Flags(TRUE, TRUE, TRUE)
    /\ call.result.found
    /\ Cardinality(variables) = 3
    /\ Len(constraints) = 3

\* A search of the package has returned to its caller.
SolveReturned ==
    \/ pc = "returned" /\ call.fn # "none"
    \/ pc = "instrumented" /\ instr.runs # <<>>
    \/ pc = "constructed" /\ runs # <<>>

\* C4 (the CSP is left as given): once backtracking_search,
\* heuristic_backtracking_search, InstrumentedHeuristicBacktracking's or
\* InferenceBacktrackingSolver's solve_with_metrics has returned, with or
\* without a solution, every domain of csp.domains equals its pre-solve value,
\* and no step of any of them changes csp.variables or csp.constraints.
C4_CSPUnchanged ==
    /\ [](SolveReturned => domains = declared /\ DOMAIN domains = variables)
    /\ [][variables' = variables /\ constraints' = constraints]_vars

\* A solve of InferenceBacktrackingSolver has returned an assignment after
\* pruning, and its working domains are still pruned.
C4_Witness ==
    /\ SolveReturned
    /\ runs # <<>>
    /\ runs[1].solution.found
    /\ runs[1].metrics.forward_prunes > 0
    /\ \E v \in variables : Cur[v] # declared[v]

\* C6 (add_constraint rejects unregistered scope variables): an add_constraint
\* call whose constraint names a variable that add_variable has not registered
\* raises and leaves the constraint list as it was, a call whose scope is
\* registered appends the constraint, and so every stored constraint's scope
\* is a subset of csp.variables.
C6_ScopesRegistered ==
    /\ \A i \in DOMAIN constraints : ScopeSet(constraints[i].scope) \subseteq variables
    /\ lastCall.op = "add_constraint" =>
          IF ScopeSet(lastCall.arg.scope) \subseteq variables
          THEN lastCall.raised = "none" /\ constraints = Append(lastCall.before, lastCall.arg)
          ELSE lastCall.raised = "ValueError" /\ constraints = lastCall.before

\* add_constraint has just refused a ternary constraint whose first variable is
\* registered and another is not, with a constraint already stored.
C6_Witness ==
    /\ lastCall.op = "add_constraint"
    /\ lastCall.raised = "ValueError"
    /\ Len(lastCall.arg.scope) = 3
    /\ lastCall.arg.scope[1] \in variables
    /\ constraints # <<>>

\* C7 (add_variable accepts only a non-empty domain): an add_variable call
\* with an empty domain raises and leaves variables and domains unchanged, so
\* every registered variable has a non-empty declared domain.
C7_NonEmptyDomains ==
    /\ \A v \in variables : domains[v] # {}
    /\ (lastCall.op = "add_variable" /\ lastCall.arg[2] = {}) =>
          /\ lastCall.raised # "none"
          /\ <<variables, domains>> = lastCall.before

\* C8 (zero-variable CSP): on a CSP without variables, backtracking_search,
\* heuristic_backtracking_search, InferenceBacktrackingSolver.solve_with_metrics
\* and InstrumentedHeuristicBacktracking.solve_with_metrics all return the
\* empty assignment, and none of them raises.
C8_ZeroVariables ==
    variables = {} =>
        /\ call.fn # "none" => call.result = Found(EmptyAssignment)
        /\ \A i \in DOMAIN runs : runs[i].solution = Found(EmptyAssignment)
        /\ \A i \in DOMAIN instr.runs :
              /\ instr.runs[i].raised = "none"
              /\ instr.runs[i].solution = Found(EmptyAssignment)

\* C9 (repeated solves agree): all solve_with_metrics calls made on one
\* InferenceBacktrackingSolver return the same assignment and the same
\* counters, and so do all calls made on one InstrumentedHeuristicBacktracking;
\* every solve of InferenceBacktrackingSolver starts from zeroed counters and
\* from working domains equal to the declared ones.
C9_RepeatedSolvesAgree ==
    /\ \A i, j \in DOMAIN runs : runs[i] = runs[j]
    /\ \A i, j \in DOMAIN instr.runs :
          /\ instr.runs[i].raised = instr.runs[j].raised
          /\ instr.runs[i].solution = instr.runs[j].solution
          /\ instr.runs[i].metrics = instr.runs[j].metrics
    /\ (pc = "enter" /\ stack = <<>>) =>
          /\ counters = ZeroInferenceCounters
          /\ assignment = EmptyAssignment
          /\ Cur = declared

\* A second solve has returned on a solver whose first solve backtracked,
\* pruned, found an assignment and so left its working domains pruned.
C9_Witness ==
    /\ Len(runs) = 2
    /\ runs[1].solution.found
    /\ runs[1].metrics.backtracks > 0
    /\ runs[1].metrics.forward_prunes > 0
    /\ runs[2].metrics.nodes_expanded > 1

\* C10 (the metrics wrapper is transparent): whenever
\* InstrumentedHeuristicBacktracking.solve_with_metrics returns, for any flags
\* and any progress_interval, its assignment (or None) is the one
\* heuristic_backtracking_search returns with the same flags on the same CSP.
C10_WrapperTransparent ==
    \A i \in DOMAIN instr.runs :
        instr.runs[i].raised = "none" =>
            instr.runs[i].solution =
                heuristic_backtracking_search(
                    Flags(instr.self.use_mrv, instr.self.use_degree, instr.self.use_lcv))

\* ------------------------------------------------------------ the public helpers
\* The values of v that csp.is_consistent accepts under asg.
LegalSet(v, asg) == {x \in domains[v] : is_consistent(constraints, v, x, asg)}

\* The unassigned variables sharing a constraint with v.
OpenNeighbours(v, asg) ==
    {w \in variables \ DOMAIN asg :
        /\ w # v
        /\ \E i \in DOMAIN constraints : {v, w} \subseteq ScopeSet(constraints[i].scope)}

Open(asg) == variables \ DOMAIN asg

\* The elements of a sequence.
Range(seq) == {seq[i] : i \in DOMAIN seq}

\* select_unassigned_variable has returned under the given flags on an
\* assignment that leaves a variable open.
Selected(use_mrv, use_degree) ==
    /\ pc = "returned"
    /\ call.fn = "select_unassigned_variable"
    /\ call.flags.use_mrv = use_mrv
    /\ call.flags.use_degree = use_degree
    /\ Open(call.asg) # {}

\* C11 (MRV): with use_mrv and without use_degree, select_unassigned_variable
\* returns an unassigned variable whose number of legal values is minimal
\* among all unassigned variables, together with exactly that variable's legal
\* values; where no domain is narrowed by the assignment, it is a variable of
\* the smallest domain.
C11_MRV ==
    Selected(TRUE, FALSE) =>
        LET var == call.result.var
            legal_values == call.result.legal_values
        IN  /\ var \in Open(call.asg)
            /\ \A v \in Open(call.asg) :
                   Cardinality(LegalSet(var, call.asg)) <= Cardinality(LegalSet(v, call.asg))
            /\ Range(legal_values) = LegalSet(var, call.asg)
            /\ Len(legal_values) = Cardinality(LegalSet(var, call.asg))
            /\ (\A v \in Open(call.asg) : LegalSet(v, call.asg) = domains[v]) =>
                   \A v \in Open(call.asg) :
                       Cardinality(domains[var]) <= Cardinality(domains[v])

\* Domain sizes 1, 2, 3 under constraints and an empty assignment: the
\* variable of the one-value domain is returned with its one value, although
\* it is not the first in the iteration order of csp.variables.
C11_Witness ==
    /\ Selected(TRUE, FALSE)
    /\ call.asg = EmptyAssignment
    /\ variables = {"A", "B", "C"}
    /\ domains["A"] = {1} /\ domains["B"] = {1, 2} /\ domains["C"] = {1, 2, 3}
    /\ constraints # <<>>
    /\ hashOrder[1] # "A"
    /\ call.result = [var |-> "A", legal_values |-> <<1>>]

\* C12 (degree): with use_degree and without use_mrv, select_unassigned_variable
\* returns an unassigned variable whose number of unassigned neighbours is
\* maximal among the unassigned variables; assigned neighbours do not count.
C12_Degree ==
    Selected(FALSE, TRUE) =>
        LET var == call.result.var
        IN  /\ var \in Open(call.asg)
            /\ \A v \in Open(call.asg) :
                   Cardinality(OpenNeighbours(v, call.asg))
                       <= Cardinality(OpenNeighbours(var, call.asg))

\* Another unassigned variable shares constraints with as many variables as
\* the one returned, but one of them is assigned, which leaves it with fewer
\* unassigned neighbours.
C12_Witness ==
    /\ Selected(FALSE, TRUE)
    /\ LET var == call.result.var
       IN  \E v \in Open(call.asg) :
               /\ Cardinality(OpenNeighbours(v, EmptyAssignment))
                      >= Cardinality(OpenNeighbours(var, EmptyAssignment))
               /\ Cardinality(OpenNeighbours(v, call.asg))
                      < Cardinality(OpenNeighbours(var, call.asg))

\* The unassigned variables of maximal unassigned-neighbour count.
MaxDegreeVars(asg) ==
    {v \in Open(asg) :
        \A w \in Open(asg) :
            Cardinality(OpenNeighbours(w, asg)) <= Cardinality(OpenNeighbours(v, asg))}

\* Of the variables in S, those with the fewest legal values.
MinLegalVars(S, asg) ==
    {v \in S : \A w \in S : Cardinality(LegalSet(v, asg)) <= Cardinality(LegalSet(w, asg))}

\* The variable of S whose name is first in string order.
FirstByName(S) == CHOOSE v \in S : \A w \in S : w = v \/ LexLess(StrOfVar(v), StrOfVar(w))

\* C13 (tie-breaking): with both flags, the variable returned is the first in
\* string order among the variables of fewest legal values among the variables
\* of maximal unassigned-neighbour count: the degree filter acts first, and
\* the choice depends on the CSP, the assignment and the flags only, not on
\* the iteration order of csp.variables.
C13_TieBreaking ==
    Selected(TRUE, TRUE) =>
        /\ call.result.var = FirstByName(MinLegalVars(MaxDegreeVars(call.asg), call.asg))
        /\ Range(call.result.legal_values) = LegalSet(call.result.var, call.asg)

\* The variable returned has more legal values than another unassigned
\* variable, which the degree filter removed, and is not the first variable
\* in iteration order.
C13_Witness ==
    /\ Selected(TRUE, TRUE)
    /\ hashOrder[1] # call.result.var
    /\ \E v \in Open(call.asg) :
           Cardinality(LegalSet(v, call.asg))
               < Cardinality(LegalSet(call.result.var, call.asg))

\* order_domain_values has returned.
Ordered ==
    /\ pc = "returned"
    /\ call.fn = "order_domain_values"

\* The values of the unassigned neighbours of var that are consistent under
\* asg and no longer are once var is assigned value.
Eliminated(var, value, asg) ==
    {<<n, nv>> \in UNION {{n} \X domains[n] : n \in OpenNeighbours(var, asg)} :
        /\ is_consistent(constraints, n, nv, asg)
        /\ ~is_consistent(constraints, n, nv, Assign(asg, var, value))}

Impact(var, value, asg) == Cardinality(Eliminated(var, value, asg))

\* C14 (LCV): with use_lcv, order_domain_values returns the values in
\* ascending order of impact, the number of values of the unassigned
\* neighbours that become inconsistent when the value is assigned; values of
\* equal impact come in ascending order of the value.
C14_LCV ==
    (Ordered /\ call.flags.use_lcv) =>
        \A i, j \in DOMAIN call.result :
            i < j =>
                LET a == Impact(call.var, call.result[i], call.asg)
                    b == Impact(call.var, call.result[j], call.asg)
                IN  a < b \/ (a = b /\ call.result[i] <= call.result[j])

\* The values 1, 2, 3 of a variable whose unassigned neighbour has the domain
\* {1, 2}: 3 eliminates nothing and comes first, 1 and 2 eliminate one value
\* each and follow in their own order.
C14_Witness ==
    /\ Ordered /\ call.flags.use_lcv
    /\ call.legal_values = <<1, 2, 3>>
    /\ call.result = <<3, 1, 2>>
    /\ Impact(call.var, 3, call.asg) = 0
    /\ Impact(call.var, 1, call.asg) = 1
    /\ Impact(call.var, 2, call.asg) = 1

\* The number of times x occurs in seq.
Count(seq, x) == Cardinality({i \in DOMAIN seq : seq[i] = x})

\* C15 (value ordering only orders): for either setting of use_lcv,
\* order_domain_values called for a variable the assignment does not hold
\* returns a permutation of the values it was given and leaves the assignment
\* as it was before the call; without use_lcv the values come back in the
\* order given; no domain changes.
C15_OrdersOnly ==
    /\ [](Ordered =>
            /\ Len(call.result) = Len(call.legal_values)
            /\ \A x \in Range(call.legal_values) \cup Range(call.result) :
                   Count(call.result, x) = Count(call.legal_values, x)
            /\ call.after = call.asg
            /\ ~call.flags.use_lcv => call.result = call.legal_values)
    /\ [][domains' = domains]_vars

\* With use_lcv the values came back in another order than given, scored
\* under a non-empty assignment, which is as it was.
C15_Witness ==
    /\ Ordered /\ call.flags.use_lcv
    /\ call.asg # EmptyAssignment
    /\ call.result # call.legal_values
    /\ call.after = call.asg

\* Three variables with the same two-value domain and an inequality between
\* every two of them, under a solver with the technique arc_consistency alone.
TriangleUnderAC ==
    /\ Cardinality(variables) = 3
    /\ \A v, w \in variables : declared[v] = declared[w] /\ Cardinality(declared[v]) = 2
    /\ \A i \in DOMAIN constraints :
           /\ constraints[i].fn = "not_equal"
           /\ Cardinality(ScopeSet(constraints[i].scope)) = 2
    /\ \A v, w \in variables :
           v # w => \E i \in DOMAIN constraints : ScopeSet(constraints[i].scope) = {v, w}
    /\ techniques = <<"arc_consistency">>

\* C16 (AC-3 alone refutes the triangle): on three mutually unequal variables
\* over one two-value domain, the solver with techniques = (arc_consistency,)
\* returns None having expanded the root only (nodes_expanded = 1,
\* max_depth = 0): _backtrack is never active below the root, and every
\* attempt is undone with a domain emptied by _arc_consistency.
C16_TriangleByAC ==
    TriangleUnderAC =>
        /\ \A i \in DOMAIN runs :
               /\ runs[i].solution = None
               /\ runs[i].metrics.nodes_expanded = 1
               /\ runs[i].metrics.max_depth = 0
        /\ pc \in SearchPcs => Len(stack) <= 1
        /\ pc = "undo" => \E v \in variables : Cur[v] = {}
        /\ pc # "found"

\* A solve of the triangle has returned None after both values of the first
\* variable were tried and undone, with arcs revised.
C16_Witness ==
    /\ TriangleUnderAC
    /\ Len(runs) >= 1
    /\ runs[1].solution = None
    /\ runs[1].metrics.backtracks = 2
    /\ runs[1].metrics.arc_revisions > 0

\* The values an assignment gives the variables of a scope, in scope order.
ScopeValues(scope, asg) == [i \in DOMAIN scope |-> asg[scope[i]]]

\* The relation of constraint c holds of a tuple of values.
Permits(c, values) ==
    \/ c.kind = "set" /\ values \in c.tuples
    \/ c.kind = "callable" /\ ApplyRelation(c.fn, values)

\* Constraint c is satisfied by asg in the sense of C17.
Satisfies(c, asg) ==
    \/ ~(ScopeSet(c.scope) \subseteq DOMAIN asg)
    \/ Permits(c, ScopeValues(c.scope, asg))

\* C17 (constraint checks): is_satisfied is True whenever a variable of the
\* scope is unassigned, and otherwise True exactly when the relation permits
\* the values taken in scope order; is_consistent(var, value, assignment) is
\* True exactly when every constraint whose scope contains var is so satisfied
\* by the assignment extended with var = value, and the assignment passed in
\* is as before.
C17_ConstraintChecks ==
    /\ (pc = "returned" /\ call.fn = "is_satisfied") =>
           /\ ~(ScopeSet(call.constraint.scope) \subseteq DOMAIN call.asg) => call.result
           /\ ScopeSet(call.constraint.scope) \subseteq DOMAIN call.asg =>
                  (call.result <=>
                       Permits(call.constraint,
                               ScopeValues(call.constraint.scope, call.asg)))
    /\ (pc = "returned" /\ call.fn = "is_consistent") =>
           /\ call.result <=>
                  \A i \in DOMAIN constraints :
                      call.var \in ScopeSet(constraints[i].scope) =>
                          Satisfies(constraints[i],
                                    [v \in DOMAIN call.asg \cup {call.var} |->
                                        IF v = call.var THEN call.value ELSE call.asg[v]])
           /\ call.after = call.asg

\* is_consistent returned False for a variable of two constraints: one is
\* violated by the extended assignment, the other still has an unassigned
\* variable.
C17_Witness ==
    /\ pc = "returned" /\ call.fn = "is_consistent"
    /\ ~call.result
    /\ call.var \notin DOMAIN call.asg
    /\ \E i, j \in DOMAIN constraints :
           /\ call.var \in ScopeSet(constraints[i].scope)
           /\ ~Satisfies(constraints[i], Assign(call.asg, call.var, call.value))
           /\ call.var \in ScopeSet(constraints[j].scope)
           /\ ~(ScopeSet(constraints[j].scope) \subseteq DOMAIN call.asg \cup {call.var})

\* The complete assignments over the domains that satisfy every constraint.
SolutionSet ==
    {a \in [variables -> UNION {domains[v] : v \in variables}] :
        /\ \A v \in variables : a[v] \in domains[v]
        /\ \A i \in DOMAIN constraints : Satisfies(constraints[i], a)}

\* C18 (count_solutions): count_solutions(csp, max_count) returns the smaller
\* of max_count and the number of complete assignments over the declared
\* domains that satisfy every constraint, so never more than max_count and 0
\* for max_count = 0; the CSP is as before.
C18_CountSolutions ==
    /\ []((pc = "returned" /\ call.fn = "count_solutions") =>
            /\ call.result =
                   IF Cardinality(SolutionSet) <= call.max_count
                   THEN Cardinality(SolutionSet) ELSE call.max_count
            /\ call.result <= call.max_count
            /\ call.max_count = 0 => call.result = 0)
    /\ [][variables' = variables /\ domains' = domains /\ constraints' = constraints]_vars

\* A count stopped at max_count = 2 on a constrained CSP with more solutions.
C18_Witness ==
    /\ pc = "returned" /\ call.fn = "count_solutions"
    /\ call.max_count = 2
    /\ call.result = 2
    /\ constraints # <<>>
    /\ Cardinality(SolutionSet) > 2

\* C19 (soundness of the ch5 BacktrackingSolver): every non-None assignment
\* BacktrackingSolver.solve returns, under any inference strategy, assigns
\* every variable and satisfies every constraint, the values added as
\* inferences included.
C19_Ch5Soundness ==
    (pc = "returned" /\ call.fn = "BacktrackingSolver.solve" /\ call.result.found) =>
        /\ DOMAIN call.result.assignment = variables
        /\ \A i \in DOMAIN constraints : Satisfies(constraints[i], call.result.assignment)

\* The values of v recorded in the removals of the active _backtrack calls.
Recorded(v) ==
    {stack[k].removals[i][2] :
        <<k, i>> \in {<<k, i>> \in (DOMAIN stack) \X (1..8) :
                         /\ i \in DOMAIN stack[k].removals
                         /\ stack[k].removals[i][1] = v}}

\* The number of entries in the removals of the active _backtrack calls.
RecordedCount == SumSeq([k \in DOMAIN stack |-> Len(stack[k].removals)])

\* Every value missing from a working domain is recorded once in the
\* removals of an active attempt, and nothing else is recorded.
TrailAccounts ==
    /\ \A v \in variables : Cur[v] = declared[v] \ Recorded(v)
    /\ \A v \in variables : Recorded(v) \subseteq declared[v]
    /\ RecordedCount = SumSeq([i \in DOMAIN hashOrder |->
                                  Cardinality(declared[hashOrder[i]] \ Cur[hashOrder[i]])])

\* The counter a technique's handler advances.
CounterOf(name) ==
    CASE name = "forward_checking" -> "forward_prunes"
      [] name = "constraint_propagation" -> "propagation_steps"
      [] name = "arc_consistency" -> "arc_revisions"

\* An attempt begins: the domain of the assigned variable is restricted to the
\* assigned value before the first technique.
RestrictionFirst ==
    (pc = "loop" /\ pc' \in {"infer", "enter"}) =>
        /\ Top.var \in DOMAIN assignment'
        /\ Cur'[Top.var] = {assignment'[Top.var]}
        /\ tech' = 1
        /\ counters' = counters

\* The techniques act one after the other in the order of the constructor's
\* argument: the step at position tech advances no counter but that of
\* techniques[tech], and the search goes on only after the last position.
InGivenOrder ==
    pc = "infer" =>
        /\ tech \in 1..Len(techniques)
        /\ tech' = tech + 1
        /\ \A name \in TECHNIQUES \ {techniques[tech]} :
               counters'[CounterOf(name)] = counters[CounterOf(name)]
        /\ pc' \in {"infer", "enter", "undo"}
        /\ pc' = "infer" => tech < Len(techniques)
        /\ pc' = "enter" => tech = Len(techniques)

\* A technique that fails ends the attempt: the next step is the undo, not
\* another technique.
FirstFailureStops ==
    /\ (pc = "infer" /\ \E v \in variables : Cur'[v] = {}) => pc' = "undo"
    /\ (pc = "infer" /\ pc' = "undo") => \E v \in variables : Cur'[v] = {}
    /\ pc = "undo" => pc' = "loop"

\* The undo puts back every value the attempt recorded and unassigns the
\* variable, before the next value is tried.
AttemptRolledBack ==
    pc = "undo" =>
        /\ \A v \in variables :
               Cur'[v] = Cur[v] \cup {Top.removals[i][2] :
                                        i \in {j \in DOMAIN Top.removals :
                                                  Top.removals[j][1] = v}}
        /\ stack'[Len(stack)].removals = <<>>
        /\ Top.var \notin DOMAIN assignment'
        /\ \A v \in DOMAIN assignment' : assignment'[v] = assignment[v]

\* C20 (the inference chain of an attempt): _apply_inference restricts the
\* assigned variable's domain to the assigned value and then runs the
\* techniques in the order given to the constructor; the first technique that
\* fails ends the chain, and the caller then restores every pruning recorded
\* during the attempt, the restriction and the prunings of the techniques
\* that succeeded included, before it tries the next value: during a search
\* the working domains differ from the declared ones by exactly the removals
\* of the attempts still active.
C20_InferenceChain ==
    /\ [](pc \in {"enter", "loop", "infer", "undo"} => TrailAccounts)
    /\ [][RestrictionFirst /\ InGivenOrder /\ FirstFailureStops /\ AttemptRolledBack]_vars

\* The first of several techniques has just failed by emptying a domain, so
\* the others are not run; the attempt's removals hold the restriction of the
\* assigned variable and prunings of another variable.
C20_Witness ==
    /\ pc = "undo"
    /\ Len(techniques) >= 2
    /\ tech = 2
    /\ \E v \in variables : Cur[v] = {}
    /\ \E i, j \in DOMAIN Top.removals :
           Top.removals[i][1] = Top.var /\ Top.removals[j][1] # Top.var

\* The values of v recorded in the removals of the attempt of the innermost
\* active call.
RecordedTop(v) ==
    {Top.removals[i][2] : i \in {j \in DOMAIN Top.removals : Top.removals[j][1] = v}}

\* C21 (a failed attempt leaves the working domains as they were): before
\* every attempt the working domains are those of the call's entry; when an
\* attempt has failed, by inference or by the recursive call, its removals
\* hold exactly the pairs missing from the working domains, each once; and
\* _restore makes the working domains those of before the attempt again.
C21_FailedAttemptRestored ==
    /\ [](pc = "loop" => Cur = Top.entry)
    /\ [](pc = "undo" =>
            /\ \A v \in variables :
                   /\ RecordedTop(v) = Top.entry[v] \ Cur[v]
                   /\ Cur[v] \subseteq Top.entry[v]
            /\ Len(Top.removals) =
                   SumSeq([i \in DOMAIN hashOrder |-> Cardinality(RecordedTop(hashOrder[i]))]))
    /\ [][pc = "undo" => (pc' = "loop" /\ Cur' = Top.entry)]_vars

\* An attempt that failed in the recursive call is about to be undone: its
\* removals hold prunings of two variables, made by a technique that succeeded.
C21_Witness ==
    /\ pc = "undo"
    /\ \A v \in variables : Cur[v] # {}
    /\ techniques # <<>>
    /\ \E i \in DOMAIN Top.removals : Top.removals[i][1] # Top.var
    /\ Len(Top.removals) >= 2

\* A solve_with_metrics call has returned a solution, and no other solve has
\* begun since.
SolvedLast ==
    /\ pc = "constructed"
    /\ runs # <<>>
    /\ runs[Len(runs)].solution.found

\* C22 as stated (every _backtrack return leaves the working domains as at
\* the call's entry): when the root call has returned None, when a solution
\* is being returned through the active calls, and after solve_with_metrics
\* has returned, the working domains are those of the entry of each of these
\* calls, after a solve the pre-solve domains.
C22_DomainsAsAtEntry ==
    /\ pc = "failed" => Cur = declared
    /\ pc = "found" => \A k \in DOMAIN stack : Cur = stack[k].entry
    /\ (pc = "constructed" /\ runs # <<>>) => Cur = declared

\* C22 amended (a _backtrack return of None leaves the working domains as at
\* the call's entry): a call that returns None returns with the working
\* domains of its entry, the root call with the pre-solve domains; a call that
\* returns a solution leaves the prunings of the successful attempts in
\* place, so that after a successful solve every working domain is the
\* singleton of the variable's value in the solution, while csp.domains are
\* the pre-solve domains.
C22_FailureRestoresEntry ==
    /\ [](pc = "failed" => Cur = declared)
    /\ []((pc = "constructed" /\ runs # <<>> /\ ~runs[Len(runs)].solution.found)
             => Cur = declared)
    /\ [](SolvedLast =>
             /\ \A v \in variables : Cur[v] = {runs[Len(runs)].solution.assignment[v]}
             /\ domains = declared)
    /\ [][(pc = "loop" /\ pc' \in {"undo", "failed"}) => Cur' = Top.entry]_vars

\* A solve has returned a solution and the working domains are not the
\* pre-solve domains.
C22_Witness ==
    /\ SolvedLast
    /\ Cur # declared
    /\ runs[Len(runs)].metrics.backtracks > 0

\* The recursive calls of the heuristic searches that SpecHelpers makes.
HeuristicRecursive ==
    {"heuristic_backtracking._recursive_backtrack", "_instrumented_recursive_backtrack"}

\* The call selected a variable that has no value consistent with the
\* assignment.
SelectedDeadEnd == call.sel.var # NoneVar /\ call.sel.legal_values = <<>>

\* The complete assignments that extend asg and are solutions.
SolutionsFrom(asg) ==
    {a \in SolutionSet : \A v \in DOMAIN asg : a[v] = asg[v]}

\* C23 (a selected variable without a legal value fails the call at once and
\* soundly): a recursive call of either heuristic search whose selected
\* variable has no value consistent with the assignment returns failure
\* without going a level deeper and leaves the assignment dict as it was
\* handed in (the instrumented one having counted one attempt and no
\* assignment); no solution extends that assignment, and so each recursive
\* call, the dead end included, returns failure only when no solution extends
\* the assignment it was called with.
C23_DeadEndFailsAtOnce ==
    call.fn \in HeuristicRecursive =>
        /\ SelectedDeadEnd =>
              /\ ~call.result.found
              /\ call.result.assignment = call.asg
              /\ SolutionsFrom(call.asg) = {}
              /\ call.fn = "heuristic_backtracking._recursive_backtrack" =>
                     call.result.depth = 0
              /\ call.fn = "_instrumented_recursive_backtrack" =>
                     /\ call.result.self.attempt_count = 1
                     /\ call.result.self.domain_reductions = 0
                     /\ call.result.self.recursion_depth = 0
        /\ ~call.result.found => SolutionsFrom(call.asg) = {}

\* Degree without MRV selected a variable without a legal value while another
\* unassigned variable has one, in a CSP that has a solution.
C23_Witness ==
    /\ call.fn \in HeuristicRecursive
    /\ call.flags.use_degree /\ ~call.flags.use_mrv
    /\ SelectedDeadEnd
    /\ \E v \in variables \ DOMAIN call.asg : get_legal_values(v, call.asg) # <<>>
    /\ SolutionSet # {}
    /\ ~call.result.found

\* The step is a call of the named technique's handler.
HandlerStep(name) == pc = "infer" /\ techniques[tech] = name

\* The pairs the step appended to the removals list of the running attempt.
Appended ==
    SubSeq(Top'.removals, Len(Top.removals) + 1, Len(Top'.removals))

\* The values of v among the appended pairs.
AppendedValues(v) ==
    {Appended[i][2] : i \in {j \in DOMAIN Appended : Appended[j][1] = v}}

\* The step removed values from working domains only, and appended exactly
\* the removed (variable, value) pairs to the removals list, each once.
RemovedAreAppended ==
    /\ Len(Top'.removals) >= Len(Top.removals)
    /\ SubSeq(Top'.removals, 1, Len(Top.removals)) = Top.removals
    /\ \A v \in variables :
          /\ Cur'[v] \subseteq Cur[v]
          /\ AppendedValues(v) = Cur[v] \ Cur'[v]
    /\ Len(Appended) =
          SumSeq([i \in DOMAIN hashOrder |->
                     Cardinality(Cur[hashOrder[i]] \ Cur'[hashOrder[i]])])

\* The unassigned neighbours of the variable of the running attempt.
OpenNeighboursOfTop == {Y \in neighbors[Top.var] : Y \notin DOMAIN assignment}

\* C24 (_forward_check's postcondition): a _forward_check call that returns
\* True leaves every unassigned neighbour of the variable with a non-empty
\* domain whose values are all consistent with the assignment; it returns
\* False exactly when it leaves some unassigned neighbour with an empty
\* domain; the domains of assigned variables and of non-neighbours are as
\* before; and every value it removed is on the removals list.
C24_ForwardCheck ==
    [][HandlerStep("forward_checking") =>
          /\ pc' # "undo" =>
                \A Y \in OpenNeighboursOfTop :
                    /\ Cur'[Y] # {}
                    /\ \A nv \in Cur'[Y] : is_consistent(constraints, Y, nv, assignment)
          /\ pc' = "undo" <=> \E Y \in OpenNeighboursOfTop : Cur'[Y] = {}
          /\ \A v \in variables \ OpenNeighboursOfTop : Cur'[v] = Cur[v]
          /\ RemovedAreAppended
          /\ counters'.forward_prunes = counters.forward_prunes + Len(Appended)]_vars

\* _forward_check has returned True after pruning a neighbour, or False.
C24_Witness ==
    /\ pc \in {"infer", "enter", "undo"}
    /\ tech >= 2
    /\ techniques[tech - 1] = "forward_checking"
    /\ counters.forward_prunes > 0
    /\ \E i \in DOMAIN Top.removals : Top.removals[i][1] # Top.var

\* Every value of xi has a support in the domain of xj, by _has_support.
ArcConsistent(D, xi, xj) ==
    \A value \in D[xi] : has_support(D, xi, value, xj, assignment)

\* The ordered pairs of distinct neighbouring variables.
Arcs == {<<xi, xj>> \in variables \X variables : xi # xj /\ xj \in neighbors[xi]}

\* What the handler called in this step returns, its log included.
HandlerReturn ==
    Handler(techniques[tech], SearchState(Cur, Top.removals, counters), Top.var,
            assignment)

\* C25 as stated (_arc_consistency returning True leaves every arc
\* consistent): after an _arc_consistency call that returns True, every value
\* in the domain of every variable has a support in the domain of each of the
\* variable's neighbours.
C25_AllArcsConsistent ==
    [][(HandlerStep("arc_consistency") /\ pc' # "undo") =>
          \A arc \in Arcs : ArcConsistent(Cur', arc[1], arc[2])]_vars

\* C25 amended (the queue is seeded with the arcs into the assigned variable
\* only): after an _arc_consistency call for X that returns True, every
\* arc (Y, X) from a neighbour Y of X is consistent and X keeps its single
\* value; the queue began with exactly the arcs (Y, X); and every pass that
\* revised an arc (Xi, Xj) and left Xi with fewer values, not none, appended
\* the arcs (Xk, Xi) of all neighbours Xk # Xj of Xi to the queue, while every
\* other pass appended nothing.
C25_ArcsIntoAssigned ==
    [][HandlerStep("arc_consistency") =>
          LET r == HandlerReturn
              log == r.log
              seeds == {<<Y, Top.var>> : Y \in neighbors[Top.var]}
              Before(n) == IF n = 1 THEN Len(Top.removals) ELSE log[n - 1].removed
              Grown(n) == SubSeq(log[n].after, Len(log[n].queue), Len(log[n].after))
          IN  /\ r.ok = (pc' # "undo")
              /\ r.st.D = Cur'
              /\ r.ok => /\ \A Y \in neighbors[Top.var] \ {Top.var} :
                               ArcConsistent(Cur', Y, Top.var)
                         /\ Cur'[Top.var] = {assignment[Top.var]}
              /\ IF seeds = {} THEN log = <<>>
                 ELSE /\ log # <<>>
                      /\ Range(log[1].queue) = seeds
                      /\ Len(log[1].queue) = Cardinality(seeds)
              /\ \A n \in DOMAIN log :
                    /\ SubSeq(log[n].after, 1, Len(log[n].queue) - 1) = Tail(log[n].queue)
                    /\ n > 1 => log[n].queue = log[n - 1].after
                    /\ LET xi == log[n].queue[1][1]
                           xj == log[n].queue[1][2]
                       IN  IF log[n].removed > Before(n) /\ (n < Len(log) \/ r.ok)
                           THEN /\ Range(Grown(n)) =
                                      {<<xk, xi>> : xk \in neighbors[xi] \ {xj}}
                                /\ Len(Grown(n)) = Cardinality(neighbors[xi] \ {xj})
                           ELSE Grown(n) = <<>>]_vars

\* _arc_consistency has returned True after a pass that shrank a domain and
\* appended arcs, and an arc between two other variables is not consistent.
C25_Witness ==
    /\ pc \in {"infer", "enter"}
    /\ tech >= 2
    /\ techniques[tech - 1] = "arc_consistency"
    /\ counters.arc_revisions > 0
    /\ \E arc \in Arcs : ~ArcConsistent(Cur, arc[1], arc[2])

\* The step is a call of one of the two worklist handlers.
WorklistStep ==
    HandlerStep("constraint_propagation") \/ HandlerStep("arc_consistency")

\* C26 (the worklist loops terminate): a _constraint_propagation or
\* _arc_consistency call makes finitely many passes. A pass appends to the
\* queue only if it removed a value, so the passes that append are no more
\* than the values the call removed, which are no more than the values the
\* working domains held, and the passes are no more than the first queue and
\* one batch of neighbours per removed value. The call returns True with the
\* queue empty and no domain emptied, and False with a domain empty in the
\* pass that emptied the first one.
C26_WorklistsTerminate ==
    [][WorklistStep =>
          LET r == HandlerReturn
              log == r.log
              removedByCall == Len(r.st.removals) - Len(Top.removals)
              held == SumSeq([i \in DOMAIN hashOrder |-> Cardinality(Cur[hashOrder[i]])])
              Before(n) == IF n = 1 THEN Len(Top.removals) ELSE log[n - 1].removed
              Appends(n) == Len(log[n].after) - (Len(log[n].queue) - 1)
              emptied == {v \in variables : Cur[v] # {} /\ r.st.D[v] = {}}
          IN  /\ r.ok = (pc' # "undo")
              /\ r.st.D = Cur'
              /\ \A n \in DOMAIN log :
                    /\ log[n].queue # <<>>
                    /\ Appends(n) >= 0
                    /\ Appends(n) > 0 => log[n].removed > Before(n)
                    /\ Appends(n) < Cardinality(variables)
                    /\ n > 1 => log[n].queue = log[n - 1].after
              /\ Cardinality({n \in DOMAIN log : Appends(n) > 0}) <= removedByCall
              /\ removedByCall <= held
              /\ log # <<>> =>
                    Len(log) <= Len(log[1].queue) + removedByCall * Cardinality(variables)
              /\ r.ok => /\ log # <<>> => log[Len(log)].after = <<>>
                         /\ emptied = {}
              /\ ~r.ok => /\ log # <<>>
                          /\ \E v \in variables : r.st.D[v] = {}
                          /\ Cardinality(emptied) <= 1]_vars

\* A worklist handler, first in the list, has failed on a domain it emptied,
\* in a solve without an earlier failure where a worklist pass had removed a
\* value and the loop had gone on.
C26_Witness ==
    /\ pc = "undo"
    /\ tech = 2
    /\ techniques[1] \in {"constraint_propagation", "arc_consistency"}
    /\ counters.propagation_steps + counters.arc_revisions > 0
    /\ counters.backtracks = 0
    /\ \E v \in variables : Cur[v] = {} /\ Top.entry[v] # {}

\* C27 (the working domains at every _backtrack entry): whenever _backtrack
\* is entered, whatever the techniques, the working domain of each assigned
\* variable is the singleton of its assigned value, every working domain is a
\* subset of the declared domain, and, provided every declared domain is
\* non-empty, no unassigned variable has an empty working domain.
C27_DomainsAtEntry ==
    pc = "enter" =>
        /\ \A v \in DOMAIN assignment : Cur[v] = {assignment[v]}
        /\ \A v \in variables : Cur[v] \subseteq declared[v]
        /\ (\A v \in variables : declared[v] # {}) =>
               \A v \in variables \ DOMAIN assignment : Cur[v] # {}

\* _backtrack is entered below the root after inference has pruned the
\* domain of an unassigned variable, in a CSP without an empty declared
\* domain and after an earlier attempt has failed.
C27_Witness ==
    /\ pc = "enter"
    /\ stack # <<>>
    /\ techniques # <<>>
    /\ counters.backtracks > 0
    /\ \A v \in variables : declared[v] # {}
    /\ \E v \in variables \ DOMAIN assignment : Cur[v] # declared[v]

\* The recursive functions of the basic, heuristic and instrumented searches.
RecursiveCalls ==
    {"backtracking._recursive_backtrack", "heuristic_backtracking._recursive_backtrack",
     "_instrumented_recursive_backtrack"}

\* The number of variables the assignment does not hold.
Unassigned(asg) == Cardinality(variables) - Cardinality(DOMAIN asg)

\* C28 (a failed recursive call leaves the assignment dict as it found it, and
\* each level adds one variable): in the basic, heuristic and instrumented
\* searches a recursive call that returns failure leaves the dict equal to
\* the one it was handed, a call that returns a solution returns the dict
\* grown to all variables with the entries it was handed unchanged, and the
\* recursion goes no deeper than the number of unassigned variables. In the
\* inference solver the dict at every pass of a call's value loop, and so when
\* the call returns None, is the dict of the call's entry; each active call
\* holds the entries of its caller and the caller's variable, a variable the
\* caller's dict did not hold; and neither the depth of the active calls nor
\* max_depth exceeds the number of variables.
C28_FailureLeavesAssignment ==
    /\ call.fn \in RecursiveCalls =>
          /\ ~call.result.found => call.result.assignment = call.asg
          /\ call.result.found =>
                /\ DOMAIN call.result.assignment = variables
                /\ \A v \in DOMAIN call.asg : call.result.assignment[v] = call.asg[v]
          /\ call.fn # "_instrumented_recursive_backtrack" =>
                call.result.depth <= Unassigned(call.asg)
          /\ call.fn = "_instrumented_recursive_backtrack" =>
                call.result.self.max_recursion_depth <= Unassigned(call.asg) + 1
    /\ pc = "loop" => assignment = Top.held
    /\ pc = "failed" => assignment = EmptyAssignment
    /\ pc \in {"enter", "infer", "undo", "found"} =>
          Cardinality(DOMAIN assignment) = Len(stack)
    /\ \A k \in DOMAIN stack :
          /\ stack[k].var \in variables \ DOMAIN stack[k].held
          /\ Cardinality(DOMAIN stack[k].held) = k - 1
          /\ k > 1 => stack[k].held =
                          Assign(stack[k - 1].held, stack[k - 1].var,
                                 stack[k].held[stack[k - 1].var])
    /\ Len(stack) <= Cardinality(variables)
    /\ counters.max_depth <= Cardinality(variables)

\* A recursive call on a non-empty dict, with two or more variables
\* unassigned, has failed after it had assigned all but the last of them.
C28_Witness ==
    /\ call.fn \in RecursiveCalls
    /\ call.asg # EmptyAssignment
    /\ ~call.result.found
    /\ Unassigned(call.asg) >= 2
    /\ \/ call.fn # "_instrumented_recursive_backtrack"
          /\ call.result.depth >= Unassigned(call.asg) - 1
       \/ call.fn = "_instrumented_recursive_backtrack"
          /\ call.result.self.max_recursion_depth >= Unassigned(call.asg)

\* What C29 says of the metrics of one solve_with_metrics call that returned.
MetricsBalanced(solution, metrics) ==
    /\ metrics.recursion_depth = 0
    /\ metrics.max_recursion_depth <=
           (Cardinality(variables) - metrics.initial_assignment_size) + 1
    /\ metrics.variable_selections =
           IF solution.found THEN metrics.attempt_count - 1 ELSE metrics.attempt_count
    /\ metrics.variable_selections <=
           IF metrics.attempt_count > 1 THEN metrics.attempt_count ELSE 1

\* C29 (the instrumented search's counters balance): on a CSP with at least
\* one variable, when solve_with_metrics returns, with or without an initial
\* assignment, on a new solver or a used one, recursion_depth is 0 again,
\* max_recursion_depth is at most the number of variables less
\* initial_assignment_size plus one, and variable_selections is
\* attempt_count - 1 if a solution was found and attempt_count if not, so that
\* variable_selections / max(1, attempt_count) is at most 1.
C29_CountersBalance ==
    Cardinality(variables) >= 1 =>
        /\ \A i \in DOMAIN instr.runs :
              /\ instr.runs[i].raised = "none"
              /\ MetricsBalanced(instr.runs[i].solution, instr.runs[i].metrics)
        /\ (pc = "instrumented" /\ instr.runs # <<>>) => instr.self.recursion_depth = 0
        /\ (call.fn = "solve_with_metrics" /\ call.result.raised = "none") =>
              /\ MetricsBalanced(call.result.solution, call.result.metrics)
              /\ call.result.self.recursion_depth = 0
              /\ call.result.metrics.initial_assignment_size =
                     Len(call.initial_assignment)

\* solve_with_metrics has returned None from an initial assignment after
\* more than one attempt.
C29_Witness ==
    /\ call.fn = "solve_with_metrics"
    /\ call.result.raised = "none"
    /\ call.initial_assignment # <<>>
    /\ ~call.result.solution.found
    /\ call.result.metrics.attempt_count >= 2
    /\ call.result.metrics.max_recursion_depth >= 2

\* The dict the first n pairs of an initial assignment make.
Accepted(items, n) ==
    [var \in {items[j][1] : j \in 1..n} |->
        items[CHOOSE j \in 1..n : items[j][1] = var][2]]

\* Pair i of the initial assignment names a variable that is not in the CSP,
\* uses a value outside the variable's domain, or is inconsistent with the
\* pairs before it.
Refused(items, i) ==
    \/ items[i][1] \notin variables
    \/ items[i][2] \notin domains[items[i][1]]
    \/ ~is_consistent(constraints, items[i][1], items[i][2], Accepted(items, i - 1))

\* C30 (the initial assignment is validated and kept): solve_with_metrics
\* raises ValueError, before any search node is expanded, when a pair of the
\* initial assignment names a variable that is not in the CSP, uses a value
\* outside the variable's domain or is inconsistent with the pairs before
\* it; otherwise it raises no ValueError, every solution it returns holds
\* each initial variable with its initial value, and the search's dict holds
\* them still when the call ends, whether a solution was found or not.
C30_InitialAssignment ==
    call.fn = "solve_with_metrics" =>
        LET items == call.initial_assignment
            out == call.result
        IN  IF \E i \in DOMAIN items : Refused(items, i)
            THEN /\ out.raised = "ValueError"
                 /\ out.self.attempt_count = 0
                 /\ out.solution = None
            ELSE /\ out.raised # "ValueError"
                 /\ out.solution.found =>
                       /\ DOMAIN out.solution.assignment = variables
                       /\ \A i \in DOMAIN items :
                             out.solution.assignment[items[i][1]] = items[i][2]
                 /\ \A i \in DOMAIN items :
                       /\ items[i][1] \in DOMAIN out.assignment
                       /\ out.assignment[items[i][1]] = items[i][2]
                 /\ ~out.solution.found => out.assignment = Accepted(items, Len(items))

\* solve_with_metrics has returned a solution that extends an initial
\* assignment of one pair, after more attempts than the two variables left
\* need when no attempt fails.
C30_Witness ==
    /\ call.fn = "solve_with_metrics"
    /\ Len(call.initial_assignment) = 1
    /\ call.result.raised = "none"
    /\ call.result.solution.found
    /\ Cardinality(variables) = 3
    /\ call.result.metrics.attempt_count >= 4

====
